---- MODULE Spec2Model ----
(***************************************************************************)
(* A model of the fontify services: the font detector (fontDetection.ts),  *)
(* the Google Fonts client (googleFontsService.ts) and the production      *)
(* bundler (productionBundler.ts).                                         *)
(*                                                                         *)
(* Strings are sequences of one-character strings, so that splitting,      *)
(* trimming, case folding and pattern matching are computed as the code    *)
(* computes them.                                                          *)
(***************************************************************************)
EXTENDS Integers, Sequences, FiniteSets, TLC

(***************************************************************************)
(* Bounds of the model.                                                    *)
(***************************************************************************)
\* files per listing in a workspace whose files carry font declarations
MaxFiles == 2
\* files per listing in a workspace scanned only for how many files are read
MaxManyFiles == 22
\* tokens of a font stack handed to parseFontFamily
MaxStackTokens == 5

(***************************************************************************)
(* JavaScript string primitives.                                           *)
(***************************************************************************)
Min(S) == CHOOSE x \in S : \A y \in S : x <= y

Max(S) == CHOOSE x \in S : \A y \in S : x >= y

\* the characters matched by \s
Whitespace == {" ", "\n", "\t"}

UpperCase == <<"A","B","C","D","E","F","G","H","I","J","K","L","M","N","O","P","Q","R","S","T","U","V","W","X","Y","Z">>

LowerCase == <<"a","b","c","d","e","f","g","h","i","j","k","l","m","n","o","p","q","r","s","t","u","v","w","x","y","z">>

toLowerChar(c) ==
  IF \E i \in 1..Len(UpperCase) : UpperCase[i] = c
  THEN LowerCase[CHOOSE i \in 1..Len(UpperCase) : UpperCase[i] = c]
  ELSE c

\* String.prototype.toLowerCase
toLowerCase(s) == [i \in 1..Len(s) |-> toLowerChar(s[i])]

\* two strings equal up to the case of their letters
EqualIgnoringCase(a, b) ==
  /\ Len(a) = Len(b)
  /\ \A i \in 1..Len(a) : toLowerChar(a[i]) = toLowerChar(b[i])

\* first index >= p of s that holds no whitespace (Len(s)+1 when there is none)
RECURSIVE skipWhitespace(_, _)
skipWhitespace(s, p) ==
  IF p <= Len(s) /\ s[p] \in Whitespace THEN skipWhitespace(s, p + 1) ELSE p

\* last index <= p of s that holds no whitespace (0 when there is none)
RECURSIVE skipWhitespaceBack(_, _)
skipWhitespaceBack(s, p) ==
  IF p >= 1 /\ s[p] \in Whitespace THEN skipWhitespaceBack(s, p - 1) ELSE p

\* String.prototype.trim
trim(s) == SubSeq(s, skipWhitespace(s, 1), skipWhitespaceBack(s, Len(s)))

\* s.replace(/[...]/g, ''): every character of the class removed
removeChars(s, class) == SelectSeq(s, LAMBDA c : c \notin class)

\* s.replace(/x/g, y) for one-character x and y
replaceChar(s, x, y) == [i \in 1..Len(s) |-> IF s[i] = x THEN y ELSE s[i]]

\* String.prototype.startsWith
startsWith(s, p) == Len(p) <= Len(s) /\ SubSeq(s, 1, Len(p)) = p

\* String.prototype.indexOf, 1-based; 0 when p does not occur in s from index from
indexOf(s, p, from) ==
  LET I == {i \in from..(Len(s) - Len(p) + 1) : SubSeq(s, i, i + Len(p) - 1) = p}
  IN  IF I = {} THEN 0 ELSE Min(I)

\* String.prototype.includes
includes(s, p) == indexOf(s, p, 1) # 0

\* s.replace(p, r) with a string pattern: the first occurrence only
replaceFirst(s, p, r) ==
  LET i == indexOf(s, p, 1)
  IN  IF i = 0 THEN s
      ELSE SubSeq(s, 1, i - 1) \o r \o SubSeq(s, i + Len(p), Len(s))

\* String.prototype.split with a one-character separator
RECURSIVE split(_, _)
split(s, sep) ==
  LET i == indexOf(s, <<sep>>, 1)
  IN  IF i = 0 THEN <<s>>
      ELSE <<SubSeq(s, 1, i - 1)>> \o split(SubSeq(s, i + 1, Len(s)), sep)

\* Array.prototype.join
RECURSIVE join(_, _)
join(parts, sep) ==
  IF parts = <<>> THEN <<>>
  ELSE IF Len(parts) = 1 THEN parts[1]
  ELSE parts[1] \o sep \o join(Tail(parts), sep)

\* Array.prototype.slice(0, n)
slice0(xs, n) == SubSeq(xs, 1, IF Len(xs) < n THEN Len(xs) ELSE n)

\* Array.prototype.map
mapSeq(xs, F(_)) == [i \in 1..Len(xs) |-> F(xs[i])]

\* Array.prototype.flat over a sequence of sequences
RECURSIVE flatten(_)
flatten(xss) == IF xss = <<>> THEN <<>> ELSE xss[1] \o flatten(Tail(xss))

Range(xs) == {xs[i] : i \in 1..Len(xs)}

(***************************************************************************)
(* fontDetection.ts: the pure parts.                                       *)
(***************************************************************************)
\* the optional fields of a DetectedFont that are not set
Undefined == "undefined"

NoPath == <<>>

S_serif == <<"s","e","r","i","f">>
S_sans_serif == <<"s","a","n","s","-","s","e","r","i","f">>
S_monospace == <<"m","o","n","o","s","p","a","c","e">>
S_arial == <<"a","r","i","a","l">>
S_helvetica == <<"h","e","l","v","e","t","i","c","a">>
S_times == <<"t","i","m","e","s">>

systemFonts == <<S_serif, S_sans_serif, S_monospace, S_arial, S_helvetica, S_times>>

isSystemFont(font) ==
  \E i \in 1..Len(systemFonts) : systemFonts[i] = toLowerCase(font)

\* parseFontFamily's slice(0, 3)
StackCap == 3

Quotes == {"'", "\""}

parseFontFamilyToken(font) == removeChars(trim(font), Quotes)

\* parseFontFamily with the slice taken before the filter
parseFontFamilySliceFirst(fontFamily) ==
  SelectSeq(slice0(mapSeq(split(fontFamily, ","), parseFontFamilyToken), StackCap),
            LAMBDA font : ~isSystemFont(font))

parseFontFamily(fontFamily) ==
  slice0(SelectSeq(mapSeq(split(fontFamily, ","), parseFontFamilyToken),
                   LAMBDA font : ~isSystemFont(font)),
         StackCap)

\* the Map of deduplicate as a sequence of entries in insertion order
RECURSIVE deduplicateFrom(_, _, _)
deduplicateFrom(fonts, i, unique) ==
  IF i > Len(fonts) THEN unique
  ELSE LET key == toLowerCase(fonts[i].name)
       IN  IF \E j \in 1..Len(unique) : unique[j].key = key
           THEN deduplicateFrom(fonts, i + 1, unique)
           ELSE deduplicateFrom(fonts, i + 1,
                                Append(unique, [key |-> key, value |-> fonts[i]]))

\* deduplicate keyed by the name as written
RECURSIVE deduplicateExactFrom(_, _, _)
deduplicateExactFrom(fonts, i, unique) ==
  IF i > Len(fonts) THEN unique
  ELSE IF \E j \in 1..Len(unique) : unique[j].key = fonts[i].name
       THEN deduplicateExactFrom(fonts, i + 1, unique)
       ELSE deduplicateExactFrom(fonts, i + 1,
                                 Append(unique, [key |-> fonts[i].name, value |-> fonts[i]]))

deduplicateExact(fonts) ==
  LET unique == deduplicateExactFrom(fonts, 1, <<>>)
  IN  [j \in 1..Len(unique) |-> unique[j].value]

deduplicate(fonts) ==
  LET unique == deduplicateFrom(fonts, 1, <<>>)
  IN  [j \in 1..Len(unique) |-> unique[j].value]

DetectedFont(name, source, filePath, isInstalled) ==
  [name |-> name, source |-> source, filePath |-> filePath, isInstalled |-> isInstalled]

S_font_family == <<"f","o","n","t","-","f","a","m","i","l","y">>

\* the index of the last character of the match of
\* /font-family\s*:\s*([^;]+)/i that starts at index p of s; 0 when none does
cssMatchEnd(s, p) ==
  IF ~(p + Len(S_font_family) - 1 <= Len(s)
       /\ toLowerCase(SubSeq(s, p, p + Len(S_font_family) - 1)) = S_font_family)
  THEN 0
  ELSE LET colon == skipWhitespace(s, p + Len(S_font_family))
       IN  IF ~(colon <= Len(s) /\ s[colon] = ":") THEN 0
           ELSE IF ~(colon + 1 <= Len(s) /\ s[colon + 1] # ";") THEN 0
           ELSE LET semi == indexOf(s, <<";">>, colon + 1)
                IN  IF semi = 0 THEN Len(s) ELSE semi - 1

\* content.match(/font-family\s*:\s*([^;]+)/gi): the matched texts, left to right
RECURSIVE cssMatchFrom(_, _)
cssMatchFrom(s, p) ==
  IF p > Len(s) THEN <<>>
  ELSE LET e == cssMatchEnd(s, p)
       IN  IF e = 0 THEN cssMatchFrom(s, p + 1)
           ELSE <<SubSeq(s, p, e)>> \o cssMatchFrom(s, e + 1)

\* match.replace(/font-family\s*:\s*/i, '') on a matched text
cssStripProperty(match) ==
  LET colon == skipWhitespace(match, Len(S_font_family) + 1)
  IN  SubSeq(match, skipWhitespace(match, colon + 1), Len(match))

\* the references one stylesheet contributes
cssFonts(content, filePath) ==
  flatten(mapSeq(cssMatchFrom(content, 1),
                 LAMBDA match : mapSeq(parseFontFamily(cssStripProperty(match)),
                                       LAMBDA name : DetectedFont(name, "css", filePath, Undefined))))

\* the references one tailwind config contributes; arrays holds arrayMatch[1]
\* of every match of the fontFamily pattern
tailwindFonts(arrays, filePath) ==
  flatten(mapSeq(arrays,
                 LAMBDA array : mapSeq(parseFontFamily(array),
                                       LAMBDA name : DetectedFont(name, "tailwind", filePath, Undefined))))

S_fontsource == <<"@","f","o","n","t","s","o","u","r","c","e","/">>

\* Object.keys({...pkg.dependencies, ...pkg.devDependencies})
mergedDependencyKeys(pkg) ==
  pkg.dependencies \o SelectSeq(pkg.devDependencies, LAMBDA k : k \notin Range(pkg.dependencies))

\* fontsourceName with replace('-', ' '): the first hyphen only
fontsourceNameFirstHyphen(dep) ==
  replaceFirst(replaceFirst(dep, S_fontsource, <<>>), <<"-">>, <<" ">>)

fontsourceName(dep) == replaceChar(replaceFirst(dep, S_fontsource, <<>>), "-", " ")

\* the references one package.json contributes
packageFonts(pkg, filePath) ==
  mapSeq(SelectSeq(mergedDependencyKeys(pkg), LAMBDA dep : startsWith(dep, S_fontsource)),
         LAMBDA dep : DetectedFont(fontsourceName(dep), "package-json", filePath, "true"))

(***************************************************************************)
(* googleFontsService.ts: the pure parts.                                  *)
(***************************************************************************)
\* a GoogleFont of the catalog listing
GoogleFont(family, variants) == [family |-> family, variants |-> variants]

\* searchFont's key with toLowerCase only
normalizeFamilyKeepSpaces(name) == toLowerCase(name)

\* fontName.toLowerCase().replace(/\s+/g, '')
normalizeFamily(name) == removeChars(toLowerCase(name), Whitespace)

\* fonts.find(...): the index of the first entry found, 0 when none is
findFont(fonts, fontName) ==
  LET hits == {i \in 1..Len(fonts) : normalizeFamily(fonts[i].family) = normalizeFamily(fontName)}
  IN  IF hits = {} THEN 0 ELSE Min(hits)

\* a pattern that did not match (exec returned null)
NoMatch == <<>>

\* an @font-face block of the stylesheet, as the captures of urlRegex,
\* fontFamilyRegex and fontWeightRegex in it
FontFace(url, family, weight) == [url |-> url, family |-> family, weight |-> weight]

S_400 == <<"4","0","0">>

S_regular == <<"r","e","g","u","l","a","r">>

S_woff2 == <<"w","o","f","f","2">>

S_woff == <<"w","o","f","f">>

S_ttf == <<"t","t","f">>

S_dot_woff2 == <<".","w","o","f","f","2">>

S_dot_woff == <<".","w","o","f","f">>

S_dot_ttf == <<".","t","t","f">>

\* the format getFontFiles reads off a URL
formatOfUrl(url) ==
  IF includes(url, S_dot_woff2) THEN S_woff2
  ELSE IF includes(url, S_dot_woff) THEN S_woff
  ELSE IF includes(url, S_dot_ttf) THEN S_ttf
  ELSE S_woff2

FontFile(family, variant, url, format) ==
  [family |-> family, variant |-> variant, url |-> url, format |-> format]

\* the body of the while loop of getFontFiles with the weight kept as declared
fontFilesOfBlockRawWeight(fontFace) ==
  IF fontFace.url # NoMatch /\ fontFace.family # NoMatch
  THEN LET url == removeChars(fontFace.url, Quotes)
           weight == IF fontFace.weight # NoMatch THEN fontFace.weight ELSE S_400
       IN  <<FontFile(fontFace.family, weight, url, formatOfUrl(url))>>
  ELSE <<>>

\* the body of the while loop of getFontFiles: the descriptors one block adds
fontFilesOfBlock(fontFace) ==
  IF fontFace.url # NoMatch /\ fontFace.family # NoMatch
  THEN LET url == removeChars(fontFace.url, Quotes)
           weight == IF fontFace.weight # NoMatch THEN fontFace.weight ELSE S_400
           variant == IF weight = S_400 THEN S_regular ELSE weight
       IN  <<FontFile(fontFace.family, variant, url, formatOfUrl(url))>>
  ELSE <<>>

\* getFontFiles on the stylesheet it fetched: the blocks, in order
fontFilesOfCss(cssContent) == flatten(mapSeq(cssContent, fontFilesOfBlock))

(***************************************************************************)
(* productionBundler.ts (the class that exports ProductionBundle): the     *)
(* pure parts.                                                             *)
(***************************************************************************)
Digits == {"0", "1", "2", "3", "4", "5", "6", "7", "8", "9"}

\* [a-zA-Z0-9]
Alphanumeric == Range(UpperCase) \cup Range(LowerCase) \cup Digits

\* s.replace(/x+/g, y): every run of the characters of class becomes r
RECURSIVE replaceRuns(_, _, _)
replaceRuns(s, class, r) ==
  IF s = <<>> THEN <<>>
  ELSE IF s[1] \notin class THEN <<s[1]>> \o replaceRuns(Tail(s), class, r)
  ELSE LET rest == Tail(s)
       IN  IF rest # <<>> /\ rest[1] \in class THEN replaceRuns(rest, class, r)
           ELSE r \o replaceRuns(rest, class, r)

\* fontName.replace(/[^a-zA-Z0-9]/g, '-').replace(/-+/g, '-')
sanitizeFontName(fontName) ==
  replaceRuns([i \in 1..Len(fontName) |->
                 IF fontName[i] \in Alphanumeric THEN fontName[i] ELSE "-"],
              {"-"}, <<"-">>)

\* the bundleFont that returns the stylesheet path:
\* fontFamily.replace(/[^a-zA-Z0-9]/g, '-')
sanitizedNameInline(fontFamily) ==
  [i \in 1..Len(fontFamily) |->
     IF fontFamily[i] \in Alphanumeric THEN fontFamily[i] ELSE "-"]

\* path.isAbsolute on a POSIX path
isAbsolute(p) == p # <<>> /\ p[1] = "/"

\* the non-empty segments of a path
pathSegments(p) == SelectSeq(split(p, "/"), LAMBDA seg : seg # <<>>)

\* path.normalize on segments: '.' dropped, '..' takes the segment before it
\* away, stays when the path is relative and nothing is left to take, and is
\* dropped at the root
RECURSIVE normalizeSegments(_, _, _)
normalizeSegments(segs, done, absolute) ==
  IF segs = <<>> THEN done
  ELSE IF segs[1] = <<".">> THEN normalizeSegments(Tail(segs), done, absolute)
  ELSE IF segs[1] = <<".", ".">>
  THEN IF done # <<>> /\ done[Len(done)] # <<".", ".">>
       THEN normalizeSegments(Tail(segs), SubSeq(done, 1, Len(done) - 1), absolute)
       ELSE IF absolute THEN normalizeSegments(Tail(segs), done, absolute)
       ELSE normalizeSegments(Tail(segs), Append(done, segs[1]), absolute)
  ELSE normalizeSegments(Tail(segs), Append(done, segs[1]), absolute)

\* path.normalize on a POSIX path
pathNormalize(p) ==
  LET segs == normalizeSegments(pathSegments(p), <<>>, isAbsolute(p))
  IN  IF isAbsolute(p) THEN <<"/">> \o join(segs, <<"/">>)
      ELSE IF segs = <<>> THEN <<".">>
      ELSE join(segs, <<"/">>)

\* path.join of two segments
pathJoin(a, b) == pathNormalize(a \o <<"/">> \o b)

\* number of leading segments two paths share
RECURSIVE commonSegments(_, _)
commonSegments(f, t) ==
  IF f # <<>> /\ t # <<>> /\ f[1] = t[1] THEN 1 + commonSegments(Tail(f), Tail(t)) ELSE 0

\* path.relative(from, to) for two absolute paths
pathRelative(from, to) ==
  LET f == normalizeSegments(pathSegments(from), <<>>, TRUE)
      t == normalizeSegments(pathSegments(to), <<>>, TRUE)
      c == commonSegments(f, t)
  IN  join([i \in 1..(Len(f) - c) |-> <<".", ".">>] \o SubSeq(t, c + 1, Len(t)), <<"/">>)

\* downloadFont: fontFile.family.replace(/\s+/g, '-')
familyName(family) == replaceRuns(family, Whitespace, <<"-">>)

\* the name downloadFont writes a descriptor under
downloadFileName(fontFile) ==
  familyName(fontFile.family)
    \o <<"-">> \o fontFile.variant \o <<".">> \o fontFile.format

\* a downloadedPath of null
NullPath == <<>>

\* downloadFont(fontFile, outputDir): the path written, null when the request,
\* the directory or the write failed
downloadFont(fontFile, outputDir, ok) ==
  IF ok THEN pathJoin(outputDir, downloadFileName(fontFile)) ELSE NullPath

\* generateSelfHostedBundle's push, made whatever downloadFont returned
pushDownloadedAlways(fontFiles, workspaceRoot, downloadedPath) ==
  Append(fontFiles, pathRelative(workspaceRoot, downloadedPath))

\* generateSelfHostedBundle: if (downloadedPath) bundle.files.fontFiles.push(...)
pushDownloaded(fontFiles, workspaceRoot, downloadedPath) ==
  IF downloadedPath # NullPath
  THEN Append(fontFiles, pathRelative(workspaceRoot, downloadedPath))
  ELSE fontFiles

\* one @font-face rule of generateFontFaceCSS
fontFaceRule(fontFamily, fontFile, outputDir) ==
  LET sanitizedName == sanitizeFontName(fontFamily)
      fileName == sanitizedName \o <<"-">> \o fontFile.variant \o <<".">> \o fontFile.format
  IN  [family |-> fontFamily,
       src |-> <<"/">> \o outputDir \o <<"/">> \o sanitizedName \o <<"/">> \o fileName,
       format |-> fontFile.format,
       weight |-> IF fontFile.variant = S_regular THEN S_400 ELSE fontFile.variant]

\* generateFontFaceCSS: the stylesheet as its @font-face rules, the slug of
\* its utility class and custom property, and the family they are bound to
generateFontFaceCSS(fontFamily, fontFiles, options) ==
  [title |-> fontFamily,
   fontFaces |-> mapSeq(fontFiles, LAMBDA fontFile : fontFaceRule(fontFamily, fontFile, options.outputDir)),
   utilityClass |-> toLowerCase(sanitizeFontName(fontFamily)),
   customProperty |-> toLowerCase(sanitizeFontName(fontFamily)),
   boundTo |-> fontFamily]

S_css2_url == <<"h","t","t","p","s",":","/","/","f","o","n","t","s",".","g","o","o","g","l","e","a","p","i","s",".","c","o","m","/","c","s","s","2","?","f","a","m","i","l","y","=">>

S_wght == <<":","w","g","h","t","@">>

S_display_swap == <<"&","d","i","s","p","l","a","y","=","s","w","a","p">>

\* generateCDNBundle's googleFontsUrl
googleFontsUrl(fontFamily, variants) ==
  S_css2_url \o replaceRuns(fontFamily, Whitespace, <<"+">>) \o S_wght
    \o join(mapSeq(variants, LAMBDA v : IF v = S_regular THEN S_400 ELSE v), <<";">>)
    \o S_display_swap

S_dot_css == <<".","c","s","s">>

S_license_txt == <<"L","I","C","E","N","S","E",".","t","x","t">>

(***************************************************************************)
(* The text of the stylesheet generateFontFaceCSS builds, line by line.    *)
(***************************************************************************)
S_comment_open == <<"/","*"," ">>

S_font_family_title == <<" ","F","o","n","t"," ","F","a","m","i","l","y"," ","*","/">>

S_font_face_open == <<"@","f","o","n","t","-","f","a","c","e"," ","{">>

S_font_family_decl == <<" "," ","f","o","n","t","-","f","a","m","i","l","y",":"," ","'">>

S_src_url == <<" "," ","s","r","c",":"," ","u","r","l","(","'">>

S_format_open == <<"'",")"," ","f","o","r","m","a","t","(","'">>

S_format_close == <<"'",")",";">>

S_font_weight_decl == <<" "," ","f","o","n","t","-","w","e","i","g","h","t",":"," ">>

S_font_style_normal == <<" "," ","f","o","n","t","-","s","t","y","l","e",":"," ","n","o","r","m","a","l",";">>

S_font_display_swap == <<" "," ","f","o","n","t","-","d","i","s","p","l","a","y",":"," ","s","w","a","p",";">>

S_utility_classes == <<"/","*"," ","U","t","i","l","i","t","y"," ","C","l","a","s","s","e","s"," ","*","/">>

S_dot_font == <<".","f","o","n","t","-">>

S_sans_serif_tail == <<"'",","," ","s","a","n","s","-","s","e","r","i","f",";">>

S_root_open == <<":","r","o","o","t"," ","{">>

S_custom_property == <<" "," ","-","-","f","o","n","t","-">>

\* the lines one fontFiles.forEach iteration appends
fontFaceLines(rule) ==
  << S_font_face_open,
     S_font_family_decl \o rule.family \o <<"'", ";">>,
     S_src_url \o rule.src \o S_format_open \o rule.format \o S_format_close,
     S_font_weight_decl \o rule.weight \o <<";">>,
     S_font_style_normal,
     S_font_display_swap,
     <<"}">>,
     <<>> >>

\* the lines of the string generateFontFaceCSS returns
cssLines(css) ==
  << S_comment_open \o css.title \o S_font_family_title, <<>> >>
    \o flatten(mapSeq(css.fontFaces, fontFaceLines))
    \o << S_utility_classes,
          S_dot_font \o css.utilityClass \o <<" ", "{">>,
          S_font_family_decl \o css.boundTo \o S_sans_serif_tail,
          <<"}">>,
          <<>>,
          S_root_open,
          S_custom_property \o css.customProperty \o <<":", " ", "'">> \o css.boundTo
            \o S_sans_serif_tail,
          <<"}">> >>
(***************************************************************************)
(* State.  Each specification below runs one service and leaves the state  *)
(* of the others as it is.                                                 *)
(***************************************************************************)
VARIABLES
  editorFontFamily,   \* getConfiguration('editor').get('fontFamily'); <<>> when unset
  cssCount,           \* length of the listing of **/*.{css,scss}
  tailwindCount,      \* length of the listing of tailwind.config.{js,ts}
  packageCount,       \* length of the listing of **/package.json
  fuel,               \* unread files that may still carry font declarations
  cancelRequested,    \* token.isCancellationRequested
  detPc,              \* where detectFonts stands
  detIdx,             \* files of the current listing already taken by the loop
  fonts,              \* the accumulated references, before deduplicate
  readLog,            \* every readFile issued, in order, with its outcome
  detResult           \* what detectFonts returned

detVars == <<editorFontFamily, cssCount, tailwindCount, packageCount, fuel,
             cancelRequested, detPc, detIdx, fonts, readLog, detResult>>

VARIABLES
  stackTokens,        \* the tokens of the font stack handed to parseFontFamily
  stackInput,         \* the font stack: the tokens joined by commas
  stackPc,            \* "ready", then "returned"
  stackOutput         \* what parseFontFamily returned

stackVars == <<stackTokens, stackInput, stackPc, stackOutput>>

VARIABLES
  remoteCatalog,      \* the items of the remote catalog listing
  fontsCache,         \* GoogleFontsService.fontsCache: null, or the memoized listing
  listingRequests,    \* requests of the catalog listing sent so far
  catLast             \* the last call on the client: its arguments and what it returned

catVars == <<remoteCatalog, fontsCache, listingRequests, catLast>>

VARIABLES
  ffLast              \* the last getFontFiles call: its arguments, the stylesheet, the result

ffVars == <<ffLast>>

VARIABLES
  hasWorkspace,       \* whether vscode.workspace.workspaceFolders has a first folder
  bunFontFamily,      \* bundleFont's fontFamily
  bunOptions,         \* bundleFont's options
  bunPc,              \* where bundleFont stands
  bunFontFiles,       \* the descriptors getFontFiles returned
  bunIdx,             \* descriptors already handed to downloadFont
  bunDownloads,       \* what downloadFont returned for each of them, in order
  bundle,             \* the ProductionBundle being filled
  disk,               \* the paths created or written below the workspace root
  cssOnDisk           \* the stylesheets written: path and content

bunVars == <<hasWorkspace, bunFontFamily, bunOptions, bunPc, bunFontFiles, bunIdx,
             bunDownloads, bundle, disk, cssOnDisk>>

VARIABLES
  batchFonts,         \* bundleMultipleFonts' fonts, by name
  batchIdx,           \* fonts the loop of bundleMultipleFonts is done with
  batchPc,            \* where bundleMultipleFonts and generateProjectSummary stand
  batchLog,           \* every bundleFont call of the loop, in order, with its outcome
  bundles,            \* bundleMultipleFonts' bundles
  guide,              \* the integration guide generateProjectSummary wrote
  progress            \* the onProgress calls made, in order

batchVars == <<batchFonts, batchIdx, batchPc, batchLog, bundles, guide, progress>>

VARIABLES
  availableVariants,  \* getCommonVariants' availableVariants
  cvPc,               \* "ready", then "returned"
  commonVariants      \* what getCommonVariants returned

cvVars == <<availableVariants, cvPc, commonVariants>>

VARIABLES
  fwRoot,             \* whether workspaceFolders has a first folder
  fwManifest,         \* package.json at the root: absent, unreadable, or its dependencies
  fwDirs,             \* the conventional directories that exist below the root
  fwPc,               \* "ready", then "returned"
  frameworkInfo       \* what detectFramework returned

fwVars == <<fwRoot, fwManifest, fwDirs, fwPc, frameworkInfo>>

VARIABLES
  slugFontName,       \* the font name a slug is derived from
  slugPc,             \* "ready", then "returned"
  slugs               \* the slug each place of the code derives from the name

slugVars == <<slugFontName, slugPc, slugs>>

VARIABLES
  instFontName,       \* FontInstallerService.installFont's fontName
  instPc,             \* where installFont stands
  instVariants,       \* the variants installFromGoogleFonts asks for
  instFontFiles,      \* the descriptors getFontFiles returned
  instIdx,            \* descriptors already handed to downloadFont
  installedFiles,     \* the paths downloadFont returned
  instLog,            \* the font-file requests, downloads and writes made, in order
  instResult          \* the InstallResult returned

instVars == <<instFontName, instPc, instVariants, instFontFiles, instIdx, installedFiles,
              instLog, instResult>>

vars == <<detVars, stackVars, catVars, ffVars, bunVars, batchVars, cvVars, fwVars, slugVars, instVars>>

StackIdle ==
  /\ stackTokens = <<>>
  /\ stackInput = <<>>
  /\ stackPc = "idle"
  /\ stackOutput = <<>>

NullCache == [isNull |-> TRUE, fonts |-> <<>>]

CatIdle ==
  /\ remoteCatalog = <<>>
  /\ fontsCache = NullCache
  /\ listingRequests = 0
  /\ catLast = [op |-> "none"]

FfIdle == ffLast = [op |-> "none"]

\* a field of a bundle that is not set
Unset == <<>>

ProductionBundle(fontFamily, strategy) ==
  [fontFamily |-> fontFamily,
   strategy |-> strategy,
   files |-> [cssFile |-> Unset, fontFiles |-> <<>>, licenseFile |-> Unset],
   code |-> [htmlLink |-> Unset, cssImport |-> Unset, cssFontFace |-> FALSE, nextjsFont |-> FALSE]]

BundleOptions(strategy, variants, outputDir, framework) ==
  [strategy |-> strategy, variants |-> variants, outputDir |-> outputDir,
   framework |-> framework]

BunIdle ==
  /\ hasWorkspace = FALSE
  /\ bunFontFamily = <<>>
  /\ bunOptions = BundleOptions("cdn", <<>>, <<>>, "vanilla")
  /\ bunPc = "idle"
  /\ bunFontFiles = <<>>
  /\ bunIdx = 0
  /\ bunDownloads = <<>>
  /\ bundle = ProductionBundle(<<>>, "cdn")
  /\ disk = {}
  /\ cssOnDisk = <<>>


\* no guide written
NoGuide ==
  [written |-> FALSE, cdnLinks |-> <<>>, preconnects |-> 0, cssImports |-> <<>>,
   nextjsSnippets |-> <<>>, usage |-> <<>>]

BatchIdle ==
  /\ batchFonts = <<>>
  /\ batchIdx = 0
  /\ batchPc = "idle"
  /\ batchLog = <<>>
  /\ bundles = <<>>
  /\ guide = NoGuide
  /\ progress = <<>>

CvIdle ==
  /\ availableVariants = <<>>
  /\ cvPc = "idle"
  /\ commonVariants = <<>>

\* package.json as detectFramework sees it
Manifest(kind, dependencies, devDependencies) ==
  [kind |-> kind, dependencies |-> dependencies, devDependencies |-> devDependencies]

FrameworkInfo(name, defaultDir, detected) ==
  [name |-> name, defaultDir |-> defaultDir, detected |-> detected]

FwIdle ==
  /\ fwRoot = FALSE
  /\ fwManifest = Manifest("absent", {}, {})
  /\ fwDirs = {}
  /\ fwPc = "idle"
  /\ frameworkInfo = FrameworkInfo("none", <<>>, FALSE)

NoSlugs == [bundler |-> <<>>, again |-> <<>>, firstBundler |-> <<>>, download |-> <<>>]

SlugIdle ==
  /\ slugFontName = <<>>
  /\ slugPc = "idle"
  /\ slugs = NoSlugs

InstallResult(fontName, success, files, error) ==
  [fontName |-> fontName, success |-> success, source |-> "google-fonts",
   installedFiles |-> files, error |-> error]

InstIdle ==
  /\ instFontName = <<>>
  /\ instPc = "idle"
  /\ instVariants = <<>>
  /\ instFontFiles = <<>>
  /\ instIdx = 0
  /\ installedFiles = <<>>
  /\ instLog = <<>>
  /\ instResult = InstallResult(<<>>, FALSE, <<>>, <<>>)
(***************************************************************************)
(* fontDetection.ts: one run of detectFonts over a workspace.              *)
(*                                                                         *)
(* The workspace is the environment: the editor setting and the length of  *)
(* the three file listings are fixed when the run starts, and the content  *)
(* of a file is revealed when the file is read (each file is read at most  *)
(* once).  fuel bounds how many of the files still unread carry font       *)
(* declarations.                                                           *)
(***************************************************************************)
\* cssFiles.slice(0, 20)
CssFileCap == 20

\* tailwind.config.{js,ts} names two files of the workspace root
TailwindGlobFiles == 2

\* editor.fontFamily settings
EditorInter == <<"i","n","t","e","r",","," ","m","o","n","o","s","p","a","c","e">>

EditorSettings == {<<>>, EditorInter}

\* stylesheets
CssBlank == <<"p","{","}">>

CssInter == <<"h","1","{","f","o","n","t","-","f","a","m","i","l","y",":","'","I","n","t","e","r","'",",","s","e","r","i","f",";","}">>

CssLato == <<"p","{","F","o","n","t","-","F","a","m","i","l","y"," ",":"," ","A","r","i","a","l",","," ","L","a","t","o",";","f","o","n","t","-","f","a","m","i","l","y",":","I","N","T","E","R",";","}">>

\* a stack with an empty element, and a last declaration without semicolon
CssLoose == <<"a","{","f","o","n","t","-","f","a","m","i","l","y",":","L","a","t","o",","," ",";","}","b","{","f","o","n","t","-","f","a","m","i","l","y",":","I","n","t","e","r","}","p","{","c","o","l","o","r",":","r","e","d",";","}">>

CssContents(budget) ==
  IF budget = 0 THEN {CssBlank} ELSE {CssBlank, CssInter, CssLato, CssLoose}

\* tailwind configs, as the bracketed arrays of the fontFamily matches
TailwindBlank == <<>>

TailwindLato == <<<<"'","L","A","T","O","'",","," ","'","s","a","n","s","-","s","e","r","i","f","'">>>>

TailwindContents(budget) == IF budget = 0 THEN {TailwindBlank} ELSE {TailwindBlank, TailwindLato}

\* package.json manifests, as the keys of dependencies and of devDependencies
PkgBlank == [dependencies |-> <<<<"r","e","a","c","t">>>>, devDependencies |-> <<>>]

PkgOpenSans ==
  [dependencies |-> <<<<"@","f","o","n","t","s","o","u","r","c","e","/","o","p","e","n","-","s","a","n","s">>, <<"r","e","a","c","t">>>>,
   devDependencies |-> <<<<"@","f","o","n","t","s","o","u","r","c","e","/","i","b","m","-","p","l","e","x","-","m","o","n","o">>>>]

PkgArial ==
  [dependencies |-> <<<<"@","f","o","n","t","s","o","u","r","c","e","/","i","n","t","e","r">>>>,
   devDependencies |-> <<<<"@","f","o","n","t","s","o","u","r","c","e","/","a","r","i","a","l">>, <<"@","f","o","n","t","s","o","u","r","c","e","/","i","n","t","e","r">>>>]

\* a dependency key that is the prefix alone
PkgBare == [dependencies |-> <<S_fontsource>>, devDependencies |-> <<>>]

PackageContents(budget) ==
  IF budget = 0 THEN {PkgBlank} ELSE {PkgBlank, PkgOpenSans, PkgArial, PkgBare}

FilePath(kind, index) == <<kind, index>>

DetInit ==
  /\ \/ /\ cssCount \in 0..MaxFiles
        /\ packageCount \in 0..MaxFiles
        /\ fuel = MaxFiles
        /\ editorFontFamily \in EditorSettings
     \/ /\ cssCount \in 0..MaxManyFiles
        /\ packageCount \in 0..MaxManyFiles
        /\ fuel = 0
        /\ editorFontFamily = <<>>
  /\ tailwindCount \in 0..TailwindGlobFiles
  /\ cancelRequested = FALSE
  /\ detPc = "start"
  /\ detIdx = 0
  /\ fonts = <<>>
  /\ readLog = <<>>
  /\ detResult = <<>>

notDetVars == <<stackVars, catVars, ffVars, bunVars, batchVars, cvVars, fwVars, slugVars, instVars>>

DetIdle ==
  /\ editorFontFamily = <<>>
  /\ cssCount = 0
  /\ tailwindCount = 0
  /\ packageCount = 0
  /\ fuel = 0
  /\ cancelRequested = FALSE
  /\ detPc = "idle"
  /\ detIdx = 0
  /\ fonts = <<>>
  /\ readLog = <<>>
  /\ detResult = <<>>

detectFromVSCodeSettings ==
  IF editorFontFamily = <<>> THEN <<>>
  ELSE mapSeq(parseFontFamily(editorFontFamily),
              LAMBDA name : DetectedFont(name, "vscode-settings", NoPath, Undefined))

\* the files the stylesheet loop iterates over
cssScanCount == IF cssCount < CssFileCap THEN cssCount ELSE CssFileCap

\* the files the tailwind loop iterates over
tailwindScanCount == tailwindCount

\* the files the manifest loop iterates over
packageScanCount == packageCount

ReadEntry(kind, index, ok, content) ==
  [kind |-> kind, index |-> index, ok |-> ok, content |-> content]

\* what reading a file costs the budget of files with font declarations
Spend(budget, content, blank) == IF content = blank THEN budget ELSE budget - 1

\* if (token?.isCancellationRequested) break; without the test
loopNeverBreaks(isCancellationRequested) == FALSE

\* if (token?.isCancellationRequested) break; at the head of each loop body
loopBreaks(isCancellationRequested) == isCancellationRequested

\* detectFonts up to its first await: the editor setting, then the token
detectFonts ==
  /\ detPc = "start"
  /\ fonts' = detectFromVSCodeSettings
  /\ \/ /\ cancelRequested
        /\ detResult' = <<>>
        /\ detPc' = "cancelled"
     \/ /\ ~cancelRequested
        /\ detPc' = "css"
        /\ UNCHANGED detResult
  /\ UNCHANGED <<editorFontFamily, cssCount, tailwindCount, packageCount, fuel,
                 cancelRequested, detIdx, readLog>>
  /\ UNCHANGED notDetVars

\* the caller cancels the token while detectFonts is suspended
CancelToken ==
  /\ detPc \in {"start", "css", "tailwind", "package"}
  /\ ~cancelRequested
  /\ cancelRequested' = TRUE
  /\ UNCHANGED <<editorFontFamily, cssCount, tailwindCount, packageCount, fuel,
                 detPc, detIdx, fonts, readLog, detResult>>
  /\ UNCHANGED notDetVars

\* the catch of detectFromFiles, then detectFonts' return
CatchAndReturn(kind) ==
  /\ readLog' = Append(readLog, ReadEntry(kind, detIdx + 1, FALSE, <<>>))
  /\ detResult' = deduplicate(fonts)
  /\ detPc' = "done"
  /\ UNCHANGED <<fonts, fuel, detIdx>>

\* one iteration of the stylesheet loop
ReadCssFile ==
  /\ detPc = "css"
  /\ detIdx < cssScanCount
  /\ ~loopBreaks(cancelRequested)
  /\ \/ \E content \in CssContents(fuel) :
          /\ fonts' = fonts \o cssFonts(content, FilePath("css", detIdx + 1))
          /\ readLog' = Append(readLog, ReadEntry("css", detIdx + 1, TRUE, content))
          /\ fuel' = Spend(fuel, content, CssBlank)
          /\ detIdx' = detIdx + 1
          /\ UNCHANGED <<detPc, detResult>>
     \/ CatchAndReturn("css")
  /\ UNCHANGED <<editorFontFamily, cssCount, tailwindCount, packageCount, cancelRequested>>
  /\ UNCHANGED notDetVars

\* the stylesheet loop ends (exhausted or break); the tailwind listing is fetched
CssLoopExit ==
  /\ detPc = "css"
  /\ (detIdx >= cssScanCount \/ loopBreaks(cancelRequested))
  /\ detPc' = "tailwind"
  /\ detIdx' = 0
  /\ UNCHANGED <<editorFontFamily, cssCount, tailwindCount, packageCount, fuel,
                 cancelRequested, fonts, readLog, detResult>>
  /\ UNCHANGED notDetVars

\* one iteration of the tailwind loop
ReadTailwindFile ==
  /\ detPc = "tailwind"
  /\ detIdx < tailwindScanCount
  /\ ~loopBreaks(cancelRequested)
  /\ \/ \E content \in TailwindContents(fuel) :
          /\ fonts' = fonts \o tailwindFonts(content, FilePath("tailwind", detIdx + 1))
          /\ readLog' = Append(readLog, ReadEntry("tailwind", detIdx + 1, TRUE, content))
          /\ fuel' = Spend(fuel, content, TailwindBlank)
          /\ detIdx' = detIdx + 1
          /\ UNCHANGED <<detPc, detResult>>
     \/ CatchAndReturn("tailwind")
  /\ UNCHANGED <<editorFontFamily, cssCount, tailwindCount, packageCount, cancelRequested>>
  /\ UNCHANGED notDetVars

\* the tailwind loop ends; the manifest listing is fetched
TailwindLoopExit ==
  /\ detPc = "tailwind"
  /\ (detIdx >= tailwindScanCount \/ loopBreaks(cancelRequested))
  /\ detPc' = "package"
  /\ detIdx' = 0
  /\ UNCHANGED <<editorFontFamily, cssCount, tailwindCount, packageCount, fuel,
                 cancelRequested, fonts, readLog, detResult>>
  /\ UNCHANGED notDetVars

\* one iteration of the manifest loop; a failure is readFile's or JSON.parse's
ReadPackageFile ==
  /\ detPc = "package"
  /\ detIdx < packageScanCount
  /\ ~loopBreaks(cancelRequested)
  /\ \/ \E content \in PackageContents(fuel) :
          /\ fonts' = fonts \o packageFonts(content, FilePath("package", detIdx + 1))
          /\ readLog' = Append(readLog, ReadEntry("package", detIdx + 1, TRUE, content))
          /\ fuel' = Spend(fuel, content, PkgBlank)
          /\ detIdx' = detIdx + 1
          /\ UNCHANGED <<detPc, detResult>>
     \/ CatchAndReturn("package")
  /\ UNCHANGED <<editorFontFamily, cssCount, tailwindCount, packageCount, cancelRequested>>
  /\ UNCHANGED notDetVars

\* the manifest loop ends; detectFromFiles returns and detectFonts deduplicates
PackageLoopExit ==
  /\ detPc = "package"
  /\ (detIdx >= packageScanCount \/ loopBreaks(cancelRequested))
  /\ detResult' = deduplicate(fonts)
  /\ detPc' = "done"
  /\ UNCHANGED <<editorFontFamily, cssCount, tailwindCount, packageCount, fuel,
                 cancelRequested, detIdx, fonts, readLog>>
  /\ UNCHANGED notDetVars

Init == DetInit /\ StackIdle /\ CatIdle /\ FfIdle /\ BunIdle /\ BatchIdle /\ CvIdle /\ FwIdle /\ SlugIdle /\ InstIdle

Next ==
  \/ detectFonts
  \/ CancelToken
  \/ ReadCssFile
  \/ CssLoopExit
  \/ ReadTailwindFile
  \/ TailwindLoopExit
  \/ ReadPackageFile
  \/ PackageLoopExit

Spec == Init /\ [][Next]_vars

(***************************************************************************)
(* Claims about detectFonts.                                               *)
(***************************************************************************)
\* the order in which detectFonts visits its sources
SourceRank(source) ==
  CASE source = "vscode-settings" -> 1
    [] source = "css" -> 2
    [] source = "tailwind" -> 3
    [] source = "package-json" -> 4

\* C1: the list detectFonts returns after a scan holds no two names equal
\* ignoring case; every returned reference is the first reference of the scan
\* (editor setting, stylesheets, tailwind configs, manifests, in that order)
\* with its name, and every name of the scan is returned once.
C1_DedupFirstWins ==
  detPc = "done" =>
    /\ \A i, j \in 1..Len(detResult) :
         i # j => ~EqualIgnoringCase(detResult[i].name, detResult[j].name)
    /\ \A a, b \in 1..Len(fonts) :
         a < b => SourceRank(fonts[a].source) <= SourceRank(fonts[b].source)
    /\ \A i \in 1..Len(detResult) :
         \E k \in 1..Len(fonts) :
           /\ fonts[k] = detResult[i]
           /\ \A m \in 1..(k - 1) : ~EqualIgnoringCase(fonts[m].name, fonts[k].name)
    /\ \A k \in 1..Len(fonts) :
         \E i \in 1..Len(detResult) : EqualIgnoringCase(detResult[i].name, fonts[k].name)

\* a scan in which a manifest's installed reference repeats, in another case,
\* a name an earlier stylesheet produced, and is dropped
C1_Witness ==
  /\ detPc = "done"
  /\ \E m, k \in 1..Len(fonts) :
       /\ m < k
       /\ EqualIgnoringCase(fonts[m].name, fonts[k].name)
       /\ fonts[m].name # fonts[k].name
       /\ fonts[m].source = "css"
       /\ fonts[k].isInstalled = "true"
       /\ fonts[k] \notin Range(detResult)

\* the files of the three listings that a scan not cancelled iterates over
ScannedFiles ==
  {FilePath("css", i) : i \in 1..cssScanCount}
    \cup {FilePath("tailwind", i) : i \in 1..tailwindCount}
    \cup {FilePath("package", i) : i \in 1..packageCount}

ReadFiles == {FilePath(readLog[i].kind, readLog[i].index) : i \in 1..Len(readLog)}

\* C2: when a scan that was not cancelled has returned, every file it iterates
\* over has been read, whether or not the read of some file failed.
C2_FailureDoesNotAbortScan ==
  (detPc = "done" /\ ~cancelRequested) => ScannedFiles \subseteq ReadFiles

\* C4: no returned reference is named, ignoring case, like an entry of the
\* system-font denylist.
C4_NoSystemFontReturned ==
  detPc \in {"done", "cancelled"} =>
    \A i \in 1..Len(detResult) :
      \A s \in 1..Len(systemFonts) : ~EqualIgnoringCase(detResult[i].name, systemFonts[s])

\* the cap on the files read per glob
PerGlobCap == 20

\* C5: of each listing at most 20 files are read, and they are its first 20.
C5_AtMostTwentyPerGlob ==
  \A i \in 1..Len(readLog) : readLog[i].index <= PerGlobCap

PrefixedKey(k) ==
  /\ Len(k) >= Len(S_fontsource)
  /\ \A i \in 1..Len(S_fontsource) : k[i] = S_fontsource[i]

\* the name C6 gives a prefixed dependency key
PrefixedKeyName(k) ==
  [i \in 1..(Len(k) - Len(S_fontsource)) |->
     IF k[i + Len(S_fontsource)] = "-" THEN " " ELSE k[i + Len(S_fontsource)]]

PackageRefs(index) ==
  SelectSeq(fonts, LAMBDA f : f.source = "package-json" /\ f.filePath = FilePath("package", index))

\* C6: for every manifest parsed by the scan, the references the scan holds for
\* it are, one per key, those of the keys of dependencies and devDependencies
\* that start with '@fontsource/': installed, and named by the key without the
\* prefix and with every hyphen turned into a space.
C6_FontsourceKeys ==
  \A e \in 1..Len(readLog) :
    (readLog[e].kind = "package" /\ readLog[e].ok) =>
      LET keys == {k \in Range(readLog[e].content.dependencies)
                           \cup Range(readLog[e].content.devDependencies) : PrefixedKey(k)}
          refs == PackageRefs(readLog[e].index)
      IN  /\ Len(refs) = Cardinality(keys)
          /\ \A i \in 1..Len(refs) : refs[i].isInstalled = "true"
          /\ \A k \in keys :
               Cardinality({i \in 1..Len(refs) : refs[i].name = PrefixedKeyName(k)})
                 = Cardinality({k2 \in keys : PrefixedKeyName(k2) = PrefixedKeyName(k)})

S_open_sans == <<"o","p","e","n"," ","s","a","n","s">>

S_ibm_plex_mono == <<"i","b","m"," ","p","l","e","x"," ","m","o","n","o">>

\* a parsed manifest with '@fontsource/open-sans', a key of two hyphens and a
\* key without the prefix
C6_Witness ==
  \E e \in 1..Len(readLog) :
    /\ readLog[e].kind = "package"
    /\ readLog[e].ok
    /\ readLog[e].content = PkgOpenSans
    /\ \E i, j \in 1..Len(fonts) :
         /\ fonts[i].name = S_open_sans
         /\ fonts[j].name = S_ibm_plex_mono

(***************************************************************************)
(* Further claims about detectFonts.                                       *)
(***************************************************************************)
\* the declarations of a stylesheet as C23 delimits them: the text of each
\* match, cut before the first '}' when one comes before the ';'
RECURSIVE declarationsFrom(_, _)
declarationsFrom(s, p) ==
  IF p > Len(s) THEN <<>>
  ELSE LET e == cssMatchEnd(s, p)
       IN  IF e = 0 THEN declarationsFrom(s, p + 1)
           ELSE LET brace == indexOf(s, <<"}">>, p)
                    last == IF brace # 0 /\ brace <= e THEN brace - 1 ELSE e
                IN  <<SubSeq(s, p, last)>> \o declarationsFrom(s, last + 1)

\* the names C23 expects of a stylesheet, in order
DeclaredNames(content) ==
  flatten(mapSeq(declarationsFrom(content, 1),
                 LAMBDA match : parseFontFamily(cssStripProperty(match))))

CssRefs(index) ==
  SelectSeq(fonts, LAMBDA f : f.source = "css" /\ f.filePath = FilePath("css", index))

\* C23: the references the scan holds for a stylesheet it read are named by
\* the font stacks of its font-family declarations, each value ending at the
\* first ';' or '}' after the colon.
C23_ValueEndsAtBrace ==
  \A e \in 1..Len(readLog) :
    (readLog[e].kind = "css" /\ readLog[e].ok) =>
      LET refs == CssRefs(readLog[e].index)
      IN  [i \in 1..Len(refs) |-> refs[i].name] = DeclaredNames(readLog[e].content)

\* the steps of detectFonts itself
DetectorStep ==
  \/ detectFonts
  \/ ReadCssFile
  \/ CssLoopExit
  \/ ReadTailwindFile
  \/ TailwindLoopExit
  \/ ReadPackageFile
  \/ PackageLoopExit

\* how far detectFonts is from its return
StepsToReturn(pc) ==
  CASE pc = "start" -> 1
    [] pc = "css" -> 3
    [] pc = "tailwind" -> 2
    [] pc = "package" -> 1
    [] OTHER -> 0

\* C26: from the moment the token is cancelled, no step of detectFonts issues
\* a read in any of its three loops, every step brings it closer to its
\* return, and until it has returned it has a step to take.
C26_CancelStopsReading ==
  /\ [][cancelRequested =>
          /\ readLog' = readLog
          /\ StepsToReturn(detPc') < StepsToReturn(detPc)]_vars
  /\ [](cancelRequested => (detPc \in {"done", "cancelled"} \/ ENABLED DetectorStep))

\* a scan cancelled after its first read, returned with files of all three
\* listings left unread
C26_Witness ==
  /\ detPc = "done"
  /\ cancelRequested
  /\ Len(readLog) = 1
  /\ readLog[1].kind = "css"
  /\ cssScanCount > 1
  /\ tailwindScanCount > 0
  /\ packageScanCount > 0

\* C28: no reference detectFonts returns has an empty name.
C28_NoEmptyName ==
  detPc \in {"done", "cancelled"} =>
    \A i \in 1..Len(detResult) : detResult[i].name # <<>>

(***************************************************************************)
(* parseFontFamily on font stacks: the stack is a list of tokens, none     *)
(* holding a comma, joined by commas.                                      *)
(***************************************************************************)
TokenInter == <<"'","I","n","t","e","r","'">>

TokenSansSerif == <<" ","s","a","n","s","-","s","e","r","i","f">>

TokenQuotedB == <<" ","\"","B"," ","c","\""," ">>

TokenArial == <<"A","R","I","A","L">>

TokenEmpty == <<>>

StackTokenSet == {TokenInter, TokenSansSerif, TokenQuotedB, TokenArial, TokenEmpty}

RECURSIVE TokenLists(_)
TokenLists(n) ==
  IF n = 0 THEN {<<>>}
  ELSE LET shorter == TokenLists(n - 1)
       IN  shorter \cup {Append(ts, t) : ts \in {x \in shorter : Len(x) = n - 1}, t \in StackTokenSet}

notStackVars == <<detVars, catVars, ffVars, bunVars, batchVars, cvVars, fwVars, slugVars, instVars>>

StackInit ==
  /\ stackTokens \in (TokenLists(MaxStackTokens) \ {<<>>})
  /\ stackInput = join(stackTokens, <<",">>)
  /\ stackPc = "ready"
  /\ stackOutput = <<>>

CallParseFontFamily ==
  /\ stackPc = "ready"
  /\ stackOutput' = parseFontFamily(stackInput)
  /\ stackPc' = "returned"
  /\ UNCHANGED <<stackTokens, stackInput>>
  /\ UNCHANGED notStackVars

InitParse == StackInit /\ DetIdle /\ CatIdle /\ FfIdle /\ BunIdle /\ BatchIdle /\ CvIdle /\ FwIdle /\ SlugIdle /\ InstIdle

NextParse == CallParseFontFamily

SpecParse == InitParse /\ [][NextParse]_vars

\* a token trimmed and without its quote characters
CleanToken(t) ==
  LET inked == {i \in 1..Len(t) : t[i] \notin Whitespace}
  IN  IF inked = {} THEN <<>>
      ELSE SelectSeq([i \in 1..(Max(inked) - Min(inked) + 1) |-> t[Min(inked) + i - 1]],
                     LAMBDA c : c # "'" /\ c # "\"")

DeniedToken(t) ==
  \E s \in 1..Len(systemFonts) : EqualIgnoringCase(CleanToken(t), systemFonts[s])

\* the positions of the tokens of the stack that are not system fonts
KeptPositions == {i \in 1..Len(stackTokens) : ~DeniedToken(stackTokens[i])}

\* the n-th position, in increasing order, of a set of positions
NthPosition(P, n) == CHOOSE i \in P : Cardinality({k \in P : k < i}) = n - 1

S_Inter == <<"I","n","t","e","r">>

\* C3: parseFontFamily returns the first three, and no more, of the tokens of
\* the stack that are not system fonts (compared ignoring case), each trimmed
\* and without its quotes, in their order; "'Inter', sans-serif" gives ["Inter"].
C3_ParseFontFamily ==
  stackPc = "returned" =>
    /\ Len(stackOutput) <= 3
    /\ Len(stackOutput) = IF Cardinality(KeptPositions) < 3 THEN Cardinality(KeptPositions) ELSE 3
    /\ \A n \in 1..Len(stackOutput) :
         stackOutput[n] = CleanToken(stackTokens[NthPosition(KeptPositions, n)])
    /\ (stackTokens = <<TokenInter, TokenSansSerif>> => stackOutput = <<S_Inter>>)

\* a stack of five custom names, of which the first three come back
C3_Witness ==
  /\ stackPc = "returned"
  /\ Len(stackTokens) = 5
  /\ Cardinality(KeptPositions) = 5
  /\ Len(stackOutput) = 3
  /\ stackOutput[1] = CleanToken(stackTokens[1])
  /\ stackOutput[3] = CleanToken(stackTokens[3])

(***************************************************************************)
(* googleFontsService.ts: one GoogleFontsService instance, called any      *)
(* number of times.  The remote catalog and the stylesheet a request is    *)
(* answered with are the environment.                                      *)
(***************************************************************************)
\* bound on the requests of the catalog listing
MaxListingRequests == 2
\* entries of the remote catalog
MaxCatalog == 2
\* @font-face blocks of a remote stylesheet
MaxFontFaces == 3

S_Open_Sans == <<"O","p","e","n"," ","S","a","n","s">>

S_Opensans == <<"O","p","e","n","s","a","n","s">>

S_Roboto == <<"R","o","b","o","t","o">>

S_Lato == <<"L","a","t","o">>

S_700 == <<"7","0","0">>

S_500 == <<"5","0","0">>

CatalogEntries ==
  {GoogleFont(S_Open_Sans, <<S_regular, S_700>>),
   GoogleFont(S_Opensans, <<S_regular>>),
   GoogleFont(S_Roboto, <<S_regular, S_500, S_700>>)}

RECURSIVE ListsOver(_, _)
ListsOver(S, n) ==
  IF n = 0 THEN {<<>>}
  ELSE LET shorter == ListsOver(S, n - 1)
       IN  shorter \cup {Append(xs, x) : xs \in {y \in shorter : Len(y) = n - 1}, x \in S}

\* the names searchFont is called with
SearchQueries == {<<"o","p","e","n"," ","s","a","n","s">>, <<"O","P","E","N"," "," ","S","A","N","S">>, <<"R","o","b","o","t","o">>, S_Lato}

\* the variants getFontFiles is called with
VariantRequests == {<<S_regular>>, <<S_regular, S_700>>}

\* the @font-face blocks a stylesheet for a family is made of: with a bare
\* and a quoted URL, without a font-weight, and without a url(...)
FontFacesOf(family) ==
  {FontFace(<<"a",".","w","o","f","f","2">>, family, S_400),
   FontFace(<<"'","b",".","w","o","f","f","'">>, family, S_700),
   FontFace(<<"c",".","t","t","f">>, family, NoMatch),
   FontFace(NoMatch, family, S_500)}

FaceRegular == FontFace(<<"a",".","w","o","f","f","2">>, S_Roboto, S_400)

FaceBold == FontFace(<<"'","b",".","w","o","f","f","'">>, S_Roboto, S_700)

FontFaces == FontFacesOf(S_Roboto)

notCatVars == <<detVars, stackVars, ffVars, bunVars, batchVars, cvVars, fwVars, slugVars, instVars>>

notFfVars == <<detVars, stackVars, catVars, bunVars, batchVars, cvVars, fwVars, slugVars, instVars>>

CatInit ==
  /\ remoteCatalog \in ListsOver(CatalogEntries, MaxCatalog)
  /\ fontsCache = NullCache
  /\ listingRequests = 0
  /\ catLast = [op |-> "none"]

\* getAllFonts without the test of the cache: the listing requested by every call
getAllFontsUncached ==
  {[cache |-> [isNull |-> FALSE, fonts |-> items],
    requests |-> listingRequests + 1,
    fonts |-> items] : items \in {remoteCatalog, <<>>}}
  \cup {[cache |-> fontsCache, requests |-> listingRequests + 1, fonts |-> <<>>]}

\* getAllFonts: what it may leave in the cache and return.  The request of the
\* listing is answered with the items, with a body without items, or fails.
getAllFonts ==
  IF ~fontsCache.isNull
  THEN {[cache |-> fontsCache, requests |-> listingRequests, fonts |-> fontsCache.fonts]}
  ELSE {[cache |-> [isNull |-> FALSE, fonts |-> items],
         requests |-> listingRequests + 1,
         fonts |-> items] : items \in {remoteCatalog, <<>>}}
       \cup {[cache |-> fontsCache, requests |-> listingRequests + 1, fonts |-> <<>>]}

\* searchFont(fontName)
searchFont ==
  \E fontName \in SearchQueries, got \in getAllFonts :
    /\ got.requests <= MaxListingRequests
    /\ fontsCache' = got.cache
    /\ listingRequests' = got.requests
    /\ LET i == findFont(got.fonts, fontName)
       IN  catLast' = [op |-> "searchFont", fontName |-> fontName, fonts |-> got.fonts,
                       requested |-> got.requests # listingRequests,
                       found |-> i # 0,
                       font |-> IF i # 0 THEN got.fonts[i] ELSE GoogleFont(<<>>, <<>>)]
    /\ UNCHANGED remoteCatalog
    /\ UNCHANGED notCatVars

\* a call of getAllFonts from outside the client
CallGetAllFonts ==
  \E got \in getAllFonts :
    /\ got.requests <= MaxListingRequests
    /\ fontsCache' = got.cache
    /\ listingRequests' = got.requests
    /\ catLast' = [op |-> "getAllFonts", fonts |-> got.fonts,
                   requested |-> got.requests # listingRequests]
    /\ UNCHANGED remoteCatalog
    /\ UNCHANGED notCatVars

\* getFontLicense(fontFamily): searchFont, then the license text or null
getFontLicense ==
  \E fontFamily \in SearchQueries, got \in getAllFonts :
    /\ got.requests <= MaxListingRequests
    /\ fontsCache' = got.cache
    /\ listingRequests' = got.requests
    /\ catLast' = [op |-> "getFontLicense", fontName |-> fontFamily, fonts |-> got.fonts,
                   requested |-> got.requests # listingRequests,
                   license |-> IF findFont(got.fonts, fontFamily) # 0 THEN "OFL" ELSE "null"]
    /\ UNCHANGED remoteCatalog
    /\ UNCHANGED notCatVars

\* getFontFiles with the variant left as the declared weight
getFontFilesRawWeight(fetched, cssContent) ==
  IF fetched THEN flatten(mapSeq(cssContent, fontFilesOfBlockRawWeight)) ELSE <<>>

\* what getFontFiles returns: the descriptors of the stylesheet, [] when the
\* request or the reading of its body threw
getFontFilesResult(fetched, cssContent) ==
  IF fetched THEN fontFilesOfCss(cssContent) ELSE <<>>

\* the stylesheets a request may be answered with
Stylesheets == ListsOver(FontFaces, MaxFontFaces)

\* getFontFiles(fontFamily, variants): the request fails, or is answered
getFontFiles ==
  \E fontFamily \in {S_Roboto}, variants \in VariantRequests,
     response \in {[fetched |-> FALSE, cssContent |-> <<>>]}
                     \cup {[fetched |-> TRUE, cssContent |-> css] : css \in Stylesheets} :
    /\ ffLast' = [op |-> "getFontFiles", fontFamily |-> fontFamily, variants |-> variants,
                  fetched |-> response.fetched, cssContent |-> response.cssContent,
                  fontFiles |-> getFontFilesResult(response.fetched, response.cssContent)]
    /\ UNCHANGED notFfVars

InitCatalog == CatInit /\ DetIdle /\ StackIdle /\ FfIdle /\ BunIdle /\ BatchIdle /\ CvIdle /\ FwIdle /\ SlugIdle /\ InstIdle

NextCatalog ==
  \/ searchFont
  \/ CallGetAllFonts
  \/ getFontLicense

SpecCatalog == InitCatalog /\ [][NextCatalog]_vars

InitFontFiles == FfIdle /\ DetIdle /\ StackIdle /\ CatIdle /\ BunIdle /\ BatchIdle /\ CvIdle /\ FwIdle /\ SlugIdle /\ InstIdle

NextFontFiles == getFontFiles

SpecFontFiles == InitFontFiles /\ [][NextFontFiles]_vars

(***************************************************************************)
(* Claims about the catalog client.                                        *)
(***************************************************************************)
\* a name without its whitespace
WithoutWhitespace(s) == SelectSeq(s, LAMBDA c : c # " " /\ c # "\n" /\ c # "\t")

SameFamily(a, b) == EqualIgnoringCase(WithoutWhitespace(a), WithoutWhitespace(b))

\* C7: searchFont returns an entry exactly when a family of the catalog it got
\* from getAllFonts equals the query once whitespace is removed from both and
\* case is ignored, and then the first such entry in catalog order.
C7_SearchFont ==
  catLast.op = "searchFont" =>
    LET matches == {i \in 1..Len(catLast.fonts) :
                      SameFamily(catLast.fonts[i].family, catLast.fontName)}
    IN  /\ catLast.found <=> matches # {}
        /\ catLast.found =>
             \E i \in matches :
               /\ catLast.font = catLast.fonts[i]
               /\ \A j \in 1..(i - 1) : j \notin matches

\* a query that differs from two families of the catalog in case and
\* whitespace only, answered with the first of them
C7_Witness ==
  /\ catLast.op = "searchFont"
  /\ catLast.found
  /\ Len(catLast.fonts) = 2
  /\ catLast.fonts[1].family # catLast.fonts[2].family
  /\ SameFamily(catLast.fonts[2].family, catLast.fontName)
  /\ catLast.font = catLast.fonts[1]
  /\ catLast.font.family # catLast.fontName
  /\ Len(catLast.font.family) # Len(catLast.fontName)

\* the label of a weight: 400 is regular
VariantLabel(weight) == IF weight = <<"4", "0", "0">> THEN S_regular ELSE weight

VariantsReturned == {ffLast.fontFiles[i].variant : i \in 1..Len(ffLast.fontFiles)}

\* C8 as stated: the variant labels are exactly the weights the @font-face
\* blocks of the stylesheet declare, 400 being labelled regular.
C8_VariantsAreDeclaredWeights ==
  (ffLast.op = "getFontFiles" /\ ffLast.fetched) =>
    VariantsReturned =
      {VariantLabel(ffLast.cssContent[i].weight) :
         i \in {k \in 1..Len(ffLast.cssContent) : ffLast.cssContent[k].weight # NoMatch}}

\* C8 amended: the variant labels are exactly the weights of the blocks that
\* have a url(...) and a quoted font-family, a block without a numeric
\* font-weight counting as 400, and 400 being labelled regular; a stylesheet
\* with such blocks of weight 400 and 700 gives exactly {regular, 700}; when
\* the stylesheet could not be fetched nothing is returned.
C8_VariantsOfUsableBlocks ==
  ffLast.op = "getFontFiles" =>
    /\ ffLast.fetched =>
         VariantsReturned =
           {VariantLabel(IF ffLast.cssContent[i].weight = NoMatch
                         THEN <<"4", "0", "0">> ELSE ffLast.cssContent[i].weight) :
              i \in {k \in 1..Len(ffLast.cssContent) :
                       /\ ffLast.cssContent[k].url # NoMatch
                       /\ ffLast.cssContent[k].family # NoMatch}}
    /\ (ffLast.fetched /\ ffLast.cssContent = <<FaceRegular, FaceBold>>) =>
         VariantsReturned = {S_regular, S_700}
    /\ ~ffLast.fetched => ffLast.fontFiles = <<>>

\* a request of [regular, 700] answered with a block of weight 400 and a block
\* of weight 700
C8_Witness ==
  /\ ffLast.op = "getFontFiles"
  /\ ffLast.fetched
  /\ ffLast.variants = <<S_regular, S_700>>
  /\ ffLast.cssContent = <<FaceRegular, FaceBold>>
  /\ Len(ffLast.fontFiles) = 2

\* C18 as stated: on one instance the catalog listing is requested at most
\* once, whatever calls are made and whatever the first request's outcome.
C18_ListingRequestedAtMostOnce == listingRequests <= 1

\* C18: a call requests the catalog listing only while no request has been
\* answered yet, and at most once; once a listing is memoized no call requests
\* it again and the memoized listing never changes.
C18_RequestedUntilMemoized ==
  [][/\ listingRequests' \in {listingRequests, listingRequests + 1}
     /\ listingRequests' # listingRequests => fontsCache.isNull
     /\ ~fontsCache.isNull => fontsCache' = fontsCache]_vars

\* a call answered from the memoized listing after the client had requested
\* the listing twice: a request that failed, then one that was answered
C18_Witness ==
  /\ catLast.op \in {"getAllFonts", "searchFont", "getFontLicense"}
  /\ ~catLast.requested
  /\ listingRequests = 2
  /\ ~fontsCache.isNull
  /\ fontsCache.fonts = remoteCatalog
  /\ Len(remoteCatalog) > 0
  /\ catLast.fonts = fontsCache.fonts

(***************************************************************************)
(* productionBundler.ts: one call of bundleFont.  The workspace folder,    *)
(* the stylesheet getFontFiles is answered with, the outcome of every      *)
(* download and of every write, and the license lookup are the             *)
(* environment.                                                            *)
(***************************************************************************)
\* workspaceFolders[0].uri.fsPath
WorkspaceRoot == <<"/","w">>

S_assets_fonts == <<"a","s","s","e","t","s","/","f","o","n","t","s">>

S_open_sans_lower == <<"o","p","e","n"," ","s","a","n","s">>

\* the names bundleFont is called with
BundleFamilies == {S_Roboto, S_open_sans_lower}

\* the family the remote stylesheet declares for a requested family
DeclaredFamily(fontFamily) == IF fontFamily = S_open_sans_lower THEN S_Open_Sans ELSE fontFamily

S_dotdot_out == <<".",".","/","o","u","t">>

S_slash_srv == <<"/","s","r","v">>

\* the output directories bundleFont is called with: below the workspace
\* root, above it, absolute
OutputDirs == {S_assets_fonts, S_dotdot_out, S_slash_srv}

Strategies == {"self-hosted", "cdn", "both"}

Frameworks == {"vanilla", "nextjs"}

notBunVars == <<detVars, stackVars, catVars, ffVars, batchVars, cvVars, fwVars, slugVars, instVars>>

BunInit ==
  /\ hasWorkspace \in BOOLEAN
  /\ bunFontFamily \in BundleFamilies
  /\ bunOptions \in {BundleOptions(s, v, S_assets_fonts, f) :
                       s \in Strategies, v \in VariantRequests, f \in Frameworks}
                    \cup {BundleOptions(s, <<S_regular>>, o, "vanilla") :
                            s \in Strategies, o \in OutputDirs}
  /\ bunPc = "start"
  /\ bunFontFiles = <<>>
  /\ bunIdx = 0
  /\ bunDownloads = <<>>
  /\ bundle = ProductionBundle(<<>>, "cdn")
  /\ disk = {}
  /\ cssOnDisk = <<>>

outputPath == pathJoin(WorkspaceRoot, bunOptions.outputDir)

fontDir == pathJoin(outputPath, sanitizeFontName(bunFontFamily))

selfHosting == bunOptions.strategy = "self-hosted" \/ bunOptions.strategy = "both"

S_link_open == <<"<","l","i","n","k"," ","h","r","e","f","=","\"">>

S_link_close == <<"\""," ","r","e","l","=","\"","s","t","y","l","e","s","h","e","e","t","\"",">">>

S_import_open == <<"@","i","m","p","o","r","t"," ","u","r","l","(","'">>

S_import_close == <<"'",")",";">>

\* generateCDNBundle, when the strategy asks for it
generateCDNBundle(b) ==
  IF bunOptions.strategy = "cdn" \/ bunOptions.strategy = "both"
  THEN LET url == googleFontsUrl(bunFontFamily, bunOptions.variants)
       IN  [b EXCEPT !.code.htmlLink = S_link_open \o url \o S_link_close,
                     !.code.cssImport = S_import_open \o url \o S_import_close]
  ELSE b

\* generateFrameworkCode
generateFrameworkCode(b) ==
  IF bunOptions.framework = "nextjs" /\ Len(b.files.fontFiles) > 0
  THEN [b EXCEPT !.code.nextjsFont = TRUE]
  ELSE b

\* bundleFont up to its first request: the workspace root, the bundle, ensureDir
bundleFont ==
  /\ bunPc = "start"
  /\ \/ /\ ~hasWorkspace
        /\ bunPc' = "thrown"
        /\ UNCHANGED <<bundle, disk>>
     \/ /\ hasWorkspace
        /\ bunPc' = "thrown"
        /\ UNCHANGED <<bundle, disk>>
     \/ /\ hasWorkspace
        /\ disk' = disk \cup {fontDir}
        /\ selfHosting
        /\ bundle' = ProductionBundle(bunFontFamily, bunOptions.strategy)
        /\ bunPc' = "fontFiles"
     \/ /\ hasWorkspace
        /\ disk' = disk \cup {fontDir}
        /\ ~selfHosting
        /\ bundle' = generateFrameworkCode(generateCDNBundle(
                       ProductionBundle(bunFontFamily, bunOptions.strategy)))
        /\ bunPc' = "license"
  /\ UNCHANGED <<hasWorkspace, bunFontFamily, bunOptions, bunFontFiles, bunIdx,
                 bunDownloads, cssOnDisk>>
  /\ UNCHANGED notBunVars

\* the stylesheets the request of a family is answered with: any list of
\* blocks for a single bundleFont call, two lists in a batch
StylesheetsFor(family) ==
  IF batchPc = "idle"
  THEN ListsOver(FontFacesOf(family), MaxFontFaces)
  ELSE {<<>>, <<FontFace(<<"a",".","w","o","f","f","2">>, family, S_400)>>}

\* generateSelfHostedBundle: getFontFiles returns
ReceiveFontFiles ==
  /\ bunPc = "fontFiles"
  /\ \E response \in {[fetched |-> FALSE, cssContent |-> <<>>]}
                       \cup {[fetched |-> TRUE, cssContent |-> css] :
                               css \in StylesheetsFor(DeclaredFamily(bunFontFamily))} :
       bunFontFiles' = getFontFilesResult(response.fetched, response.cssContent)
  /\ bunPc' = "download"
  /\ bunIdx' = 0
  /\ UNCHANGED <<hasWorkspace, bunFontFamily, bunOptions, bunDownloads, bundle, disk,
                 cssOnDisk>>
  /\ UNCHANGED notBunVars

\* generateSelfHostedBundle: one iteration of the download loop
DownloadNextFont ==
  /\ bunPc = "download"
  /\ bunIdx < Len(bunFontFiles)
  /\ \E ok \in BOOLEAN :
       LET downloadedPath == downloadFont(bunFontFiles[bunIdx + 1], fontDir, ok)
       IN  /\ bunDownloads' = Append(bunDownloads, downloadedPath)
           /\ disk' = IF ok THEN disk \cup {downloadedPath} ELSE disk
           /\ bundle' = [bundle EXCEPT !.files.fontFiles =
                           pushDownloaded(@, WorkspaceRoot, downloadedPath)]
  /\ bunIdx' = bunIdx + 1
  /\ UNCHANGED <<hasWorkspace, bunFontFamily, bunOptions, bunPc, bunFontFiles, cssOnDisk>>
  /\ UNCHANGED notBunVars

\* generateSelfHostedBundle after the loop: the stylesheet is generated and
\* written; bundleFont goes on with the CDN and the framework code
WriteCssFile ==
  /\ bunPc = "download"
  /\ bunIdx = Len(bunFontFiles)
  /\ LET cssContent == generateFontFaceCSS(bunFontFamily, bunFontFiles, bunOptions)
         cssFile == pathJoin(fontDir, sanitizeFontName(bunFontFamily) \o S_dot_css)
     IN  \/ /\ bunPc' = "thrown"
            /\ UNCHANGED <<bundle, disk, cssOnDisk>>
         \/ /\ cssOnDisk' = Append(cssOnDisk, [path |-> cssFile, content |-> cssContent])
            /\ disk' = disk \cup {cssFile}
            /\ bundle' = generateFrameworkCode(generateCDNBundle(
                           [bundle EXCEPT !.files.cssFile = pathRelative(WorkspaceRoot, cssFile),
                                          !.code.cssFontFace = TRUE]))
            /\ bunPc' = "license"
  /\ UNCHANGED <<hasWorkspace, bunFontFamily, bunOptions, bunFontFiles, bunIdx, bunDownloads>>
  /\ UNCHANGED notBunVars

\* createLicenseFile, then bundleFont returns the bundle
CreateLicenseFile ==
  /\ bunPc = "license"
  /\ LET licenseFile == pathJoin(fontDir, S_license_txt)
     IN  \/ /\ bunPc' = "done"
            /\ UNCHANGED <<bundle, disk>>
         \/ /\ disk' = disk \cup {licenseFile}
            /\ bundle' = [bundle EXCEPT !.files.licenseFile =
                            pathRelative(WorkspaceRoot, licenseFile)]
            /\ bunPc' = "done"
         \/ /\ bunPc' = "thrown"
            /\ UNCHANGED <<bundle, disk>>
  /\ UNCHANGED <<hasWorkspace, bunFontFamily, bunOptions, bunFontFiles, bunIdx,
                 bunDownloads, cssOnDisk>>
  /\ UNCHANGED notBunVars

InitBundle == BunInit /\ DetIdle /\ StackIdle /\ CatIdle /\ FfIdle /\ BatchIdle /\ CvIdle /\ FwIdle /\ SlugIdle /\ InstIdle

NextBundle ==
  \/ bundleFont
  \/ ReceiveFontFiles
  \/ DownloadNextFont
  \/ WriteCssFile
  \/ CreateLicenseFile

SpecBundle == InitBundle /\ [][NextBundle]_vars

(***************************************************************************)
(* Claims about bundleFont.                                                *)
(***************************************************************************)
\* the descriptors whose download succeeded
Downloaded == {i \in 1..Len(bunDownloads) : Len(bunDownloads[i]) > 0}

\* C9: in a bundle bundleFont returns, files.fontFiles holds one path per
\* successful download and nothing else: it is non-empty only under the
\* strategies self-hosted and both and only when a download succeeded, and it
\* is empty under the strategy cdn.
C9_FontFilesOnlyFromDownloads ==
  bunPc = "done" =>
    /\ Len(bundle.files.fontFiles) > 0 =>
         (bundle.strategy \in {"self-hosted", "both"} /\ Downloaded # {})
    /\ bundle.strategy = "cdn" => bundle.files.fontFiles = <<>>
    /\ Len(bundle.files.fontFiles) = Cardinality(Downloaded)
    /\ \A i \in 1..Len(bundle.files.fontFiles) :
         \E d \in Downloaded :
           bunDownloads[d] = pathJoin(WorkspaceRoot, bundle.files.fontFiles[i])

\* a returned bundle of which one download failed and another succeeded
C9_Witness ==
  /\ bunPc = "done"
  /\ Len(bunDownloads) = 2
  /\ Cardinality(Downloaded) = 1
  /\ Len(bundle.files.fontFiles) = 1

\* the weight a variant is declared with
NumericWeight(variant) == IF variant = S_regular THEN <<"4", "0", "0">> ELSE variant

\* C10: with a self-hosting strategy the stylesheet written for the font holds
\* one @font-face rule per descriptor downloaded successfully and none for a
\* failed download, each with the numeric weight of its variant and a src
\* below /<outputDir>/<slug>/.
C10_OneFontFacePerDownloadedVariant ==
  (bunPc = "done" /\ bundle.strategy \in {"self-hosted", "both"}) =>
    /\ Len(cssOnDisk) = 1
    /\ LET rules == cssOnDisk[1].content.fontFaces
           below == <<"/">> \o bunOptions.outputDir \o <<"/">>
                      \o sanitizeFontName(bunFontFamily) \o <<"/">>
       IN  /\ Len(rules) = Cardinality(Downloaded)
           /\ \A r \in 1..Len(rules) :
                /\ \E d \in Downloaded : rules[r].weight = NumericWeight(bunFontFiles[d].variant)
                /\ Len(rules[r].src) > Len(below)
                /\ SubSeq(rules[r].src, 1, Len(below)) = below

\* whether a line of the text starts with prefix
HasLine(lines, prefix) == \E i \in 1..Len(lines) : startsWith(lines[i], prefix)

\* C11: a bundle returned under the strategy both, of which at least one
\* download succeeded, comes with a stylesheet on disk that holds an
\* @font-face block and a CDN @import line.
C11_BothHasFontFaceAndImport ==
  (bunPc = "done" /\ bundle.strategy = "both" /\ Downloaded # {}) =>
    /\ Len(cssOnDisk) = 1
    /\ HasLine(cssLines(cssOnDisk[1].content), S_font_face_open)
    /\ HasLine(cssLines(cssOnDisk[1].content), S_import_open)

\* C12: under every strategy a returned bundle comes with the stylesheet
\* <slug>.css written in the font's directory and its path recorded in
\* files.cssFile, and the stylesheet holds the utility class .font-<slug> and
\* the custom property --font-<slug> bound to '<Family>', sans-serif.
C12_CssFileForEveryStrategy ==
  bunPc = "done" =>
    LET slug == sanitizeFontName(bunFontFamily)
        cssFile == pathJoin(fontDir, slug \o S_dot_css)
    IN  /\ Len(cssOnDisk) = 1
        /\ cssOnDisk[1].path = cssFile
        /\ bundle.files.cssFile = pathRelative(WorkspaceRoot, cssFile)
        /\ HasLine(cssLines(cssOnDisk[1].content),
                   S_dot_font \o toLowerCase(slug) \o <<" ", "{">>)
        /\ HasLine(cssLines(cssOnDisk[1].content),
                   S_custom_property \o toLowerCase(slug) \o <<":", " ", "'">>
                     \o bunFontFamily \o S_sans_serif_tail)

\* a path below the workspace root
InsideWorkspace(p) == startsWith(p, WorkspaceRoot \o <<"/">>)

\* a path with a '..' segment
HasDotDotSegment(p) == <<".", ".">> \in Range(split(p, "/"))

\* C15: a bundleFont call whose outputDir is absolute or has a '..' segment
\* ends before it creates a directory, requests anything or writes a file,
\* and no call creates or writes a path outside the workspace root.
C15_OutputDirValidated ==
  /\ (isAbsolute(bunOptions.outputDir) \/ HasDotDotSegment(bunOptions.outputDir)) =>
       (disk = {} /\ bunPc \in {"start", "thrown"})
  /\ \A p \in disk : InsideWorkspace(p)

\* C22: every bundle bundleFont returns comes with LICENSE.txt written in the
\* font's directory and its path recorded in files.licenseFile, whatever the
\* license lookup in the catalog came to.
C22_LicenseAlwaysWritten ==
  bunPc = "done" =>
    LET licenseFile == pathJoin(fontDir, S_license_txt)
    IN  /\ licenseFile \in disk
        /\ bundle.files.licenseFile = pathRelative(WorkspaceRoot, licenseFile)

\* the last segment of a path
baseName(p) == LET segs == split(p, "/") IN segs[Len(segs)]

\* C24: for every descriptor downloaded successfully, the file downloadFont
\* wrote has the name the src of that descriptor's @font-face rule ends with.
C24_SrcNamesDownloadedFile ==
  (bunPc = "done" /\ bundle.strategy \in {"self-hosted", "both"}) =>
    /\ Len(cssOnDisk) = 1
    /\ LET rules == cssOnDisk[1].content.fontFaces
       IN  \A d \in Downloaded :
             /\ d <= Len(rules)
             /\ baseName(rules[d].src) = baseName(bunDownloads[d])

\* C30: within the bundling of one font no two successful downloads wrote the
\* same path, and files.fontFiles holds no path twice.
C30_NoPathWrittenTwice ==
  /\ \A i, j \in Downloaded : i # j => bunDownloads[i] # bunDownloads[j]
  /\ \A i, j \in 1..Len(bundle.files.fontFiles) :
       i # j => bundle.files.fontFiles[i] # bundle.files.fontFiles[j]

(***************************************************************************)
(* productionBundler.ts: bundleMultipleFonts over a list of fonts, each    *)
(* handed to bundleFont above, and generateProjectSummary over the bundles *)
(* it returned, as the command handler calls them.                         *)
(***************************************************************************)
\* bound on the fonts of a batch
MaxBatchFonts == 2

S_open_hyphen_sans == <<"o","p","e","n","-","s","a","n","s">>

\* the names of the detected fonts bundleMultipleFonts is called with
BatchFamilies == BundleFamilies \cup {S_open_hyphen_sans}

\* a list of names as deduplicate leaves it: no two equal ignoring case
isDeduplicated(fs) ==
  \A i, j \in 1..Len(fs) : i # j => ~EqualIgnoringCase(fs[i], fs[j])

BatchInit ==
  /\ hasWorkspace \in BOOLEAN
  /\ bunFontFamily = <<>>
  /\ bunOptions \in {BundleOptions(s, <<S_regular, S_700>>, S_assets_fonts, f) :
                       s \in Strategies, f \in Frameworks}
  /\ bunPc = "idle"
  /\ bunFontFiles = <<>>
  /\ bunIdx = 0
  /\ bunDownloads = <<>>
  /\ bundle = ProductionBundle(<<>>, "cdn")
  /\ disk = {}
  /\ cssOnDisk = <<>>
  /\ batchFonts \in {fs \in ListsOver(BatchFamilies, MaxBatchFonts) : isDeduplicated(fs)}
  /\ batchIdx = 0
  /\ batchPc = "loop"
  /\ batchLog = <<>>
  /\ bundles = <<>>
  /\ guide = NoGuide
  /\ progress = <<>>

\* one entry of the log of bundleFont calls
BatchEntry(fontFamily, outcome, downloads) ==
  [fontFamily |-> fontFamily, outcome |-> outcome, downloads |-> downloads]

\* onProgress(i, fonts.length, font.name): the index as the loop holds it
onProgressArgumentsZeroBased(i, fs) ==
  [current |-> i, total |-> Len(fs), fontName |-> fs[i + 1]]

\* onProgress(i + 1, fonts.length, font.name)
onProgressArguments(i, fs) ==
  [current |-> i + 1, total |-> Len(fs), fontName |-> fs[i + 1]]

\* bundleMultipleFonts: the loop takes fonts[i], reports it and calls bundleFont
CallBundleFont ==
  /\ batchPc = "loop"
  /\ batchIdx < Len(batchFonts)
  /\ bunFontFamily' = batchFonts[batchIdx + 1]
  /\ bunPc' = "start"
  /\ batchPc' = "bundling"
  /\ progress' = Append(progress, onProgressArguments(batchIdx, batchFonts))
  /\ UNCHANGED <<hasWorkspace, bunOptions, bunFontFiles, bunIdx, bunDownloads, bundle,
                 disk, cssOnDisk>>
  /\ UNCHANGED <<batchFonts, batchIdx, batchLog, bundles, guide>>
  /\ UNCHANGED <<detVars, stackVars, catVars, ffVars, cvVars, fwVars, slugVars, instVars>>

\* a bundle put in front of the others
pushBundleFront(bs, b) == <<b>> \o bs

\* bundles.push(bundle)
pushBundle(bs, b) == Append(bs, b)

\* bundleMultipleFonts: bundleFont returned and its bundle is pushed
PushBundle ==
  /\ batchPc = "bundling"
  /\ bunPc = "done"
  /\ bundles' = pushBundle(bundles, bundle)
  /\ batchLog' = Append(batchLog, BatchEntry(bunFontFamily, "pushed", bunDownloads))
  /\ batchIdx' = batchIdx + 1
  /\ batchPc' = "delay"
  /\ bunPc' = "idle"
  /\ bunFontFiles' = <<>>
  /\ bunIdx' = 0
  /\ bunDownloads' = <<>>
  /\ UNCHANGED <<hasWorkspace, bunFontFamily, bunOptions, bundle, disk, cssOnDisk>>
  /\ UNCHANGED <<batchFonts, guide, progress>>
  /\ UNCHANGED <<detVars, stackVars, catVars, ffVars, cvVars, fwVars, slugVars, instVars>>

\* bundleMultipleFonts: bundleFont threw and the catch block logs it
CatchBundleFailure ==
  /\ batchPc = "bundling"
  /\ bunPc = "thrown"
  /\ batchLog' = Append(batchLog, BatchEntry(bunFontFamily, "caught", bunDownloads))
  /\ batchIdx' = batchIdx + 1
  /\ batchPc' = "delay"
  /\ bunPc' = "idle"
  /\ bunFontFiles' = <<>>
  /\ bunIdx' = 0
  /\ bunDownloads' = <<>>
  /\ UNCHANGED <<hasWorkspace, bunFontFamily, bunOptions, bundle, disk, cssOnDisk>>
  /\ UNCHANGED <<batchFonts, bundles, guide, progress>>
  /\ UNCHANGED <<detVars, stackVars, catVars, ffVars, cvVars, fwVars, slugVars, instVars>>

\* bundleMultipleFonts: the delay at the end of the loop body elapses
InterFontDelay ==
  /\ batchPc = "delay"
  /\ batchPc' = "loop"
  /\ UNCHANGED <<batchFonts, batchIdx, batchLog, bundles, guide, progress>>
  /\ UNCHANGED bunVars
  /\ UNCHANGED <<detVars, stackVars, catVars, ffVars, cvVars, fwVars, slugVars, instVars>>

\* bundleMultipleFonts: the loop is over and bundles is returned
ReturnBundles ==
  /\ batchPc = "loop"
  /\ batchIdx = Len(batchFonts)
  /\ batchPc' = "returned"
  /\ UNCHANGED <<batchFonts, batchIdx, batchLog, bundles, guide, progress>>
  /\ UNCHANGED bunVars
  /\ UNCHANGED <<detVars, stackVars, catVars, ffVars, cvVars, fwVars, slugVars, instVars>>

S_font_integration_md == <<"F","O","N","T","_","I","N","T","E","G","R","A","T","I","O","N",".","m","d">>

\* the text generateProjectSummary builds, by section: the <link> lines of the
\* CDN section, the pairs of preconnect lines, the @import lines of the
\* self-hosted section, the fonts with a Next.js snippet, the fonts with a
\* usage example
projectSummary(bs, options, includePreload) ==
  LET cdn == options.strategy = "cdn" \/ options.strategy = "both"
      selfHosted == options.strategy = "self-hosted" \/ options.strategy = "both"
  IN  [written |-> TRUE,
       cdnLinks |-> IF cdn
                    THEN mapSeq(SelectSeq(bs, LAMBDA b : b.code.htmlLink # Unset),
                                   LAMBDA b : b.code.htmlLink)
                    ELSE <<>>,
       preconnects |-> IF cdn /\ includePreload THEN Len(bs) ELSE 0,
       cssImports |-> IF selfHosted
                      THEN mapSeq(SelectSeq(bs, LAMBDA b : b.files.cssFile # Unset),
                                     LAMBDA b : S_import_open \o <<".", "/">>
                                                  \o b.files.cssFile \o S_import_close)
                      ELSE <<>>,
       nextjsSnippets |-> IF selfHosted /\ options.framework = "nextjs"
                          THEN mapSeq(SelectSeq(bs, LAMBDA b : b.code.nextjsFont),
                                         LAMBDA b : b.fontFamily)
                          ELSE <<>>,
       usage |-> mapSeq(bs, LAMBDA b : toLowerCase(sanitizeFontName(b.fontFamily)))]

\* generateProjectSummary(bundles, options), called with what
\* bundleMultipleFonts returned
generateProjectSummary ==
  /\ batchPc = "returned"
  /\ \/ /\ ~hasWorkspace
        /\ batchPc' = "summaryThrown"
        /\ UNCHANGED <<guide, disk>>
     \/ /\ hasWorkspace
        /\ batchPc' = "summaryThrown"
        /\ UNCHANGED <<guide, disk>>
     \/ /\ hasWorkspace
        /\ \E includePreload \in BOOLEAN :
             guide' = projectSummary(bundles, bunOptions, includePreload)
        /\ disk' = disk \cup {pathJoin(pathJoin(WorkspaceRoot, bunOptions.outputDir),
                                       S_font_integration_md)}
        /\ batchPc' = "summarised"
  /\ UNCHANGED <<batchFonts, batchIdx, batchLog, bundles, progress>>
  /\ UNCHANGED <<hasWorkspace, bunFontFamily, bunOptions, bunPc, bunFontFiles, bunIdx,
                 bunDownloads, bundle, cssOnDisk>>
  /\ UNCHANGED <<detVars, stackVars, catVars, ffVars, cvVars, fwVars, slugVars, instVars>>

InitBatch == BatchInit /\ DetIdle /\ StackIdle /\ CatIdle /\ FfIdle /\ CvIdle /\ FwIdle /\ SlugIdle /\ InstIdle

NextBatch ==
  \/ CallBundleFont
  \/ bundleFont
  \/ ReceiveFontFiles
  \/ DownloadNextFont
  \/ WriteCssFile
  \/ CreateLicenseFile
  \/ PushBundle
  \/ CatchBundleFailure
  \/ InterFontDelay
  \/ ReturnBundles
  \/ generateProjectSummary

SpecBatch == InitBatch /\ [][NextBatch]_vars

(***************************************************************************)
(* Claims about bundleMultipleFonts and generateProjectSummary.            *)
(***************************************************************************)
\* the calls of the log that returned a bundle
Pushed == SelectSeq(batchLog, LAMBDA e : e.outcome = "pushed")

\* the bundle the i-th call returned
BundleOfCall(i) ==
  bundles[Len(SelectSeq(SubSeq(batchLog, 1, i), LAMBDA e : e.outcome = "pushed"))]

\* the i-th call returned a bundle after every download it made had failed
AllDownloadsFailed(i) ==
  /\ batchLog[i].outcome = "pushed"
  /\ Len(batchLog[i].downloads) > 0
  /\ \A d \in 1..Len(batchLog[i].downloads) : batchLog[i].downloads[d] = NullPath

\* C13: under a self-hosting strategy, a font of which every download failed
\* has a bundle with an empty fontFiles list, and the guide
\* generateProjectSummary wrote has no @import line for that font's stylesheet.
C13_NoImportWhenAllDownloadsFail ==
  (batchPc = "summarised" /\ selfHosting) =>
    \A i \in 1..Len(batchLog) :
      AllDownloadsFailed(i) =>
        /\ BundleOfCall(i).files.fontFiles = <<>>
        /\ \A k \in 1..Len(guide.cssImports) :
             ~includes(guide.cssImports[k],
                       <<"/">> \o sanitizeFontName(batchLog[i].fontFamily) \o S_dot_css)

\* C14: bundleMultipleFonts calls bundleFont once for every font, in input
\* order, whatever the earlier calls did; a call that throws is caught and
\* the loop goes on; the list returned holds the bundles of the calls that
\* did not throw, in input order.
C14_EveryFontAttemptedInOrder ==
  /\ Len(batchLog) = batchIdx
  /\ batchIdx <= Len(batchFonts)
  /\ \A i \in 1..Len(batchLog) : batchLog[i].fontFamily = batchFonts[i]
  /\ batchPc = "bundling" =>
       (batchIdx < Len(batchFonts) /\ bunFontFamily = batchFonts[batchIdx + 1])
  /\ batchPc \in {"returned", "summarised", "summaryThrown"} =>
       Len(batchLog) = Len(batchFonts)
  /\ mapSeq(bundles, LAMBDA b : b.fontFamily) = mapSeq(Pushed, LAMBDA e : e.fontFamily)

\* a batch returned after the first font failed on a write in a workspace and
\* the second font, another family, was bundled
C14_Witness ==
  /\ batchPc = "returned"
  /\ hasWorkspace
  /\ Len(batchLog) = 2
  /\ batchLog[1].outcome = "caught"
  /\ batchLog[2].outcome = "pushed"
  /\ batchFonts[1] # batchFonts[2]
  /\ Len(bundles) = 1
  /\ bundles[1].fontFamily = batchFonts[2]

\* C16: no public operation of the bundler throws to its caller: a bundleFont
\* call made directly never ends in a throw, and neither does
\* generateProjectSummary; bundleMultipleFonts always returns.
C16_NoPublicOperationThrows ==
  /\ batchPc = "idle" => bunPc # "thrown"
  /\ batchPc # "summaryThrown"

\* the fonts whose onProgress call has been made
Reported == IF batchPc = "bundling" THEN batchIdx + 1 ELSE batchIdx

\* C25: bundleMultipleFonts handles one font at a time, in input order.  A
\* bundleFont call is in progress only for the font the loop stands at, after
\* every earlier font was pushed or caught; onProgress has been called once
\* per font taken so far, with (i + 1, total, name), before that font's
\* bundling; between two fonts nothing is requested or written, and the next
\* font is taken only after the delay has elapsed.
C25_OneFontAtATime ==
  /\ [](/\ bunPc # "idle" =>
             /\ batchPc = "bundling"
             /\ bunFontFamily = batchFonts[batchIdx + 1]
             /\ Len(batchLog) = batchIdx
        /\ progress = [k \in 1..Reported |->
                         [current |-> k, total |-> Len(batchFonts), fontName |-> batchFonts[k]]])
  /\ [][/\ (batchPc' = "bundling" /\ batchPc # "bundling") => batchPc = "loop"
        /\ (batchPc' = "loop" /\ batchPc # "loop") => batchPc = "delay"
        /\ (batchPc = "bundling" /\ batchPc' # "bundling") => batchPc' = "delay"
        /\ batchPc \in {"loop", "delay"} =>
             (disk' = disk /\ cssOnDisk' = cssOnDisk /\ bunDownloads' = bunDownloads)]_vars

\* the second font of a batch being downloaded after the first font's
\* bundling failed on a write
C25_Witness ==
  /\ batchPc = "bundling"
  /\ batchIdx = 1
  /\ batchLog[1].outcome = "caught"
  /\ Len(batchLog[1].downloads) > 0
  /\ bunPc = "download"
  /\ bunIdx = 1
  /\ Len(progress) = 2

\* the directory bundleFont gives a font
fontDirOf(fontFamily) == pathJoin(outputPath, sanitizeFontName(fontFamily))

\* C29: in one run of bundleMultipleFonts over names deduplicated ignoring
\* case, no two fonts bundled are given the same directory, and no stylesheet
\* path is written twice.
C29_NoSharedOutputPath ==
  /\ \A i, j \in 1..Len(batchLog) :
       i # j => fontDirOf(batchLog[i].fontFamily) # fontDirOf(batchLog[j].fontFamily)
  /\ \A a, b \in 1..Len(cssOnDisk) : a # b => cssOnDisk[a].path # cssOnDisk[b].path

(***************************************************************************)
(* fontInstaller.ts: getCommonVariants, called with the variants the       *)
(* catalog lists for a family.                                             *)
(***************************************************************************)
\* bound on the variants the catalog lists for a family
MaxVariants == 3

S_600 == <<"6","0","0">>

S_bold == <<"b","o","l","d">>

S_300 == <<"3","0","0">>

S_italic == <<"i","t","a","l","i","c">>

preferredVariants == <<S_regular, S_400, S_500, S_600, S_700, S_bold>>

\* .slice(0, 3)
CommonVariantsCap == 3

\* Array.prototype.includes
arrayIncludes(xs, x) == \E i \in 1..Len(xs) : xs[i] = x

\* the filter of getCommonVariants
isAvailable(available, variant) ==
  \/ arrayIncludes(available, variant)
  \/ arrayIncludes(available, IF variant = S_bold THEN S_700 ELSE variant)

getCommonVariants(available) ==
  slice0(SelectSeq(preferredVariants, LAMBDA variant : isAvailable(available, variant)),
         CommonVariantsCap)

\* the variants a catalog entry may list
CatalogVariants == {S_regular, S_400, S_500, S_600, S_700, S_bold, S_300, S_italic}

notCvVars == <<detVars, stackVars, catVars, ffVars, bunVars, batchVars, fwVars, slugVars, instVars>>

CvInit ==
  /\ availableVariants \in ListsOver(CatalogVariants, MaxVariants)
  /\ cvPc = "ready"
  /\ commonVariants = <<>>

CallGetCommonVariants ==
  /\ cvPc = "ready"
  /\ commonVariants' = getCommonVariants(availableVariants)
  /\ cvPc' = "returned"
  /\ UNCHANGED availableVariants
  /\ UNCHANGED notCvVars

InitVariants ==
  CvInit /\ DetIdle /\ StackIdle /\ CatIdle /\ FfIdle /\ BunIdle /\ BatchIdle /\ FwIdle /\ SlugIdle /\ InstIdle

NextVariants == CallGetCommonVariants

SpecVariants == InitVariants /\ [][NextVariants]_vars

\* the place of a variant in the preference order
PreferenceRank(variant) ==
  CHOOSE i \in 1..Len(preferredVariants) : preferredVariants[i] = variant

\* C17: getCommonVariants returns at most 3 variants, each of them one of the
\* variants the catalog lists for the family, in the preference order
\* regular, 400, 500, 600, 700, bold.
C17_CommonVariants ==
  cvPc = "returned" =>
    /\ Len(commonVariants) <= 3
    /\ \A i \in 1..Len(commonVariants) :
         /\ arrayIncludes(preferredVariants, commonVariants[i])
         /\ arrayIncludes(availableVariants, commonVariants[i])
    /\ \A i, j \in 1..Len(commonVariants) :
         i < j => PreferenceRank(commonVariants[i]) < PreferenceRank(commonVariants[j])

(***************************************************************************)
(* productionBundler.ts: detectFramework.  The workspace folder, the       *)
(* package.json at its root and the directories below it are the           *)
(* environment.                                                            *)
(***************************************************************************)
\* bound on the keys of dependencies and of devDependencies
MaxDeps == 2

S_public == <<"p","u","b","l","i","c">>

S_assets == <<"a","s","s","e","t","s">>

S_src_assets == <<"s","r","c","/","a","s","s","e","t","s">>

S_static == <<"s","t","a","t","i","c">>

S_slash_fonts == <<"/","f","o","n","t","s">>

S_public_fonts == <<"p","u","b","l","i","c","/","f","o","n","t","s">>

S_src_assets_fonts == <<"s","r","c","/","a","s","s","e","t","s","/","f","o","n","t","s">>

existingDirs == <<S_public, S_assets, S_src_assets, S_static>>

\* the keys of { ...packageJson.dependencies, ...packageJson.devDependencies },
\* every version being a non-empty string
mergedDeps(packageJson) == packageJson.dependencies \cup packageJson.devDependencies

\* no rule of the manifest applies
NoFramework == FrameworkInfo("none", <<>>, FALSE)

\* the rules on the dependencies with react looked at before next
frameworkOfDepsReactFirst(deps) ==
  IF "react" \in deps /\ ("vite" \in deps \/ "@vitejs/plugin-react" \in deps)
  THEN FrameworkInfo("react-vite", S_src_assets_fonts, TRUE)
  ELSE IF "react" \in deps THEN FrameworkInfo("react", S_src_assets_fonts, TRUE)
  ELSE IF "next" \in deps THEN FrameworkInfo("nextjs", S_public_fonts, TRUE)
  ELSE IF "vue" \in deps \/ "nuxt" \in deps THEN FrameworkInfo("vue", S_assets_fonts, TRUE)
  ELSE NoFramework

\* detectFramework: the rules on the dependencies
frameworkOfDeps(deps) ==
  IF "next" \in deps THEN FrameworkInfo("nextjs", S_public_fonts, TRUE)
  ELSE IF "react" \in deps /\ ("vite" \in deps \/ "@vitejs/plugin-react" \in deps)
  THEN FrameworkInfo("react-vite", S_src_assets_fonts, TRUE)
  ELSE IF "react" \in deps THEN FrameworkInfo("react", S_src_assets_fonts, TRUE)
  ELSE IF "vue" \in deps \/ "nuxt" \in deps THEN FrameworkInfo("vue", S_assets_fonts, TRUE)
  ELSE NoFramework

\* detectFramework: the loop over existingDirs, from index i
RECURSIVE scanExistingDirs(_, _)
scanExistingDirs(dirs, i) ==
  IF i > Len(existingDirs) THEN FrameworkInfo("vanilla", S_assets_fonts, FALSE)
  ELSE IF existingDirs[i] \in dirs
  THEN FrameworkInfo("vanilla",
                     IF existingDirs[i] = S_public THEN S_public_fonts
                     ELSE existingDirs[i] \o S_slash_fonts,
                     FALSE)
  ELSE scanExistingDirs(dirs, i + 1)

\* detectFramework
detectFrameworkResult(root, packageJson, dirs) ==
  IF ~root THEN FrameworkInfo("vanilla", S_assets_fonts, FALSE)
  ELSE IF packageJson.kind = "unreadable"
  THEN \* readJson throws: the catch block, then the last return
       FrameworkInfo("vanilla", S_assets_fonts, FALSE)
  ELSE LET match == IF packageJson.kind = "parsed"
                    THEN frameworkOfDeps(mergedDeps(packageJson))
                    ELSE NoFramework
       IN  IF match # NoFramework THEN match ELSE scanExistingDirs(dirs, 1)

\* the dependency names of the manifests
DepNames == {"next", "react", "vite", "@vitejs/plugin-react", "vue", "nuxt", "lodash"}

DepSets == {deps \in SUBSET DepNames : Cardinality(deps) <= MaxDeps}

notFwVars == <<detVars, stackVars, catVars, ffVars, bunVars, batchVars, cvVars, slugVars, instVars>>

FwInit ==
  /\ fwRoot \in BOOLEAN
  /\ fwManifest \in IF fwRoot
                    THEN {Manifest("absent", {}, {}), Manifest("unreadable", {}, {})}
                           \cup {Manifest("parsed", deps, devDeps) :
                                   deps \in DepSets, devDeps \in DepSets}
                    ELSE {Manifest("absent", {}, {})}
  /\ fwDirs \in IF fwRoot THEN SUBSET Range(existingDirs) ELSE {{}}
  /\ fwPc = "ready"
  /\ frameworkInfo = FrameworkInfo("none", <<>>, FALSE)

detectFramework ==
  /\ fwPc = "ready"
  /\ frameworkInfo' = detectFrameworkResult(fwRoot, fwManifest, fwDirs)
  /\ fwPc' = "returned"
  /\ UNCHANGED <<fwRoot, fwManifest, fwDirs>>
  /\ UNCHANGED notFwVars

InitFramework ==
  FwInit /\ DetIdle /\ StackIdle /\ CatIdle /\ FfIdle /\ BunIdle /\ BatchIdle /\ CvIdle /\ SlugIdle /\ InstIdle

NextFramework == detectFramework

SpecFramework == InitFramework /\ [][NextFramework]_vars

(***************************************************************************)
(* Claims about detectFramework.                                           *)
(***************************************************************************)
\* the manifest was read and these are its merged dependencies
ManifestDeps ==
  IF fwRoot /\ fwManifest.kind = "parsed"
  THEN fwManifest.dependencies \cup fwManifest.devDependencies
  ELSE {}

RuleNext == "next" \in ManifestDeps

RuleReactBundler ==
  "react" \in ManifestDeps /\ {"vite", "@vitejs/plugin-react"} \cap ManifestDeps # {}

RuleReact == "react" \in ManifestDeps

RuleVue == {"vue", "nuxt"} \cap ManifestDeps # {}

\* C19: detectFramework answers by the first rule that matches the merged
\* dependencies of the manifest, in the order: next gives nextjs with
\* public/fonts; react with vite or @vitejs/plugin-react gives
\* src/assets/fonts; react gives src/assets/fonts; vue or nuxt gives vue with
\* assets/fonts; detected is true exactly when one of the rules matched.
C19_FirstMatchingRule ==
  fwPc = "returned" =>
    /\ RuleNext =>
         (frameworkInfo.name = "nextjs" /\ frameworkInfo.defaultDir = S_public_fonts)
    /\ (~RuleNext /\ RuleReactBundler) =>
         (frameworkInfo.name = "react-vite" /\ frameworkInfo.defaultDir = S_src_assets_fonts)
    /\ (~RuleNext /\ ~RuleReactBundler /\ RuleReact) =>
         (frameworkInfo.name = "react" /\ frameworkInfo.defaultDir = S_src_assets_fonts)
    /\ (~RuleNext /\ ~RuleReactBundler /\ ~RuleReact /\ RuleVue) =>
         (frameworkInfo.name = "vue" /\ frameworkInfo.defaultDir = S_assets_fonts)
    /\ frameworkInfo.detected <=> (RuleNext \/ RuleReactBundler \/ RuleReact \/ RuleVue)

\* a manifest with react and vite in dependencies and next in devDependencies,
\* answered with nextjs
C19_Witness ==
  /\ fwPc = "returned"
  /\ fwManifest.kind = "parsed"
  /\ fwManifest.dependencies = {"react", "vite"}
  /\ fwManifest.devDependencies = {"next"}
  /\ frameworkInfo = FrameworkInfo("nextjs", S_public_fonts, TRUE)

\* the conventional directories that exist, in the order they are looked at
ExistingInOrder == SelectSeq(existingDirs, LAMBDA dir : dir \in fwDirs)

\* C20: when no rule of the manifest matched (no manifest, a manifest that
\* cannot be read or parsed, no matching dependency), detectFramework answers
\* with detected false and <dir>/fonts for the first of public, assets,
\* src/assets, static that exists, and with assets/fonts only when none exists.
C20_DirectoryFallback ==
  (fwPc = "returned" /\ ~(RuleNext \/ RuleReactBundler \/ RuleReact \/ RuleVue)) =>
    /\ ~frameworkInfo.detected
    /\ frameworkInfo.defaultDir =
         IF ExistingInOrder # <<>> THEN ExistingInOrder[1] \o S_slash_fonts
         ELSE S_assets_fonts
(***************************************************************************)
(* The slug of a font name: sanitizeFontName, and the other places that    *)
(* derive a directory or file name from a font name.                       *)
(***************************************************************************)
\* bound on the length of a font name
MaxNameLen == 4

S_IBM_Plex_Mono == <<"I","B","M"," ","P","l","e","x"," ","M","o","n","o">>

S_IBM_Plex_Mono_slug == <<"I","B","M","-","P","l","e","x","-","M","o","n","o">>

\* the characters font names are made of
NameChars == {"A", "b", "1", " ", "-", "_"}

FontNames == ListsOver(NameChars, MaxNameLen) \cup {S_IBM_Plex_Mono}

notSlugVars == <<detVars, stackVars, catVars, ffVars, bunVars, batchVars, cvVars, fwVars, instVars>>

SlugInit ==
  /\ slugFontName \in FontNames
  /\ slugPc = "ready"
  /\ slugs = NoSlugs

\* every derivation of a slug, applied to the same name
DeriveSlugs ==
  /\ slugPc = "ready"
  /\ slugs' = [bundler |-> sanitizeFontName(slugFontName),
               again |-> sanitizeFontName(sanitizeFontName(slugFontName)),
               firstBundler |-> sanitizedNameInline(slugFontName),
               download |-> familyName(slugFontName)]
  /\ slugPc' = "returned"
  /\ UNCHANGED slugFontName
  /\ UNCHANGED notSlugVars

InitSlug ==
  SlugInit /\ DetIdle /\ StackIdle /\ CatIdle /\ FfIdle /\ BunIdle /\ BatchIdle /\ CvIdle
    /\ FwIdle /\ InstIdle

NextSlug == DeriveSlugs

SpecSlug == InitSlug /\ [][NextSlug]_vars

\* what sanitizeFontName itself guarantees
SlugWellFormed(slug) ==
  /\ \A i \in 1..Len(slug) : slug[i] \in Alphanumeric \cup {"-"}
  /\ \A i \in 1..(Len(slug) - 1) : ~(slug[i] = "-" /\ slug[i + 1] = "-")

\* C21: the slug of a name is made of ASCII letters, digits and hyphens, with
\* no two hyphens adjacent; 'IBM Plex Mono' gives 'IBM-Plex-Mono'; sanitizing
\* a slug again changes nothing; and every place that derives a slug from a
\* font name (the directory name of either bundleFont, the file name
\* downloadFont writes) derives this same slug.
C21_OneSlugEverywhere ==
  slugPc = "returned" =>
    /\ SlugWellFormed(slugs.bundler)
    /\ slugFontName = S_IBM_Plex_Mono => slugs.bundler = S_IBM_Plex_Mono_slug
    /\ slugs.again = slugs.bundler
    /\ slugs.firstBundler = slugs.bundler
    /\ slugs.download = slugs.bundler

\* the part of C21 that is about sanitizeFontName alone
C21_FunctionAlone ==
  slugPc = "returned" =>
    /\ SlugWellFormed(slugs.bundler)
    /\ slugFontName = S_IBM_Plex_Mono => slugs.bundler = S_IBM_Plex_Mono_slug
    /\ slugs.again = slugs.bundler


(***************************************************************************)
(* fontInstaller.ts: one call of FontInstallerService.installFont on a     *)
(* fresh installer, with the GoogleFontsService it owns.  The remote       *)
(* catalog, the stylesheet and the outcome of every download are the       *)
(* environment.                                                            *)
(***************************************************************************)
S_Font_quote == <<"F","o","n","t"," ","\"">>

S_not_found_in_any == <<"\""," ","n","o","t"," ","f","o","u","n","d"," ","i","n"," ","a","n","y"," ","s","u","p","p","o","r","t","e","d"," ","f","o","n","t"," ","s","o","u","r","c","e","s">>

S_user_fonts == <<"/","h","o","m","e","/","u","/",".","l","o","c","a","l","/","s","h","a","r","e","/","f","o","n","t","s">>

\* the error of the result installFont builds itself
notFoundError(fontName) == S_Font_quote \o fontName \o S_not_found_in_any

\* installFont: the result of installFromGoogleFonts when it succeeded, else
\* a failure of its own, whatever error installFromGoogleFonts gave
installFontResult(fontName, googleResult) ==
  IF googleResult.success THEN googleResult
  ELSE InstallResult(fontName, FALSE, <<>>, notFoundError(fontName))

\* if (!googleFont) without the test
isMissingNever(index) == FALSE

\* if (!googleFont), on the index findFont gave
isMissing(index) == index = 0

\* the entry installFromGoogleFonts goes on with
foundFont(items, index) ==
  IF index # 0 THEN items[index]
  ELSE IF items # <<>> THEN items[1] ELSE GoogleFont(<<>>, <<S_regular>>)

\* the stylesheets the request of a family's files is answered with
InstallStylesheets(family) ==
  {<<>>, <<FontFace(<<"a",".","w","o","f","f","2">>, family, S_400)>>,
   <<FontFace(<<"a",".","w","o","f","f","2">>, family, S_400),
     FontFace(<<"c",".","t","t","f">>, family, S_700)>>}

notInstVars == <<detVars, stackVars, ffVars, bunVars, batchVars, cvVars, fwVars, slugVars>>

InstInit ==
  /\ instFontName \in SearchQueries
  /\ instPc = "ready"
  /\ instVariants = <<>>
  /\ instFontFiles = <<>>
  /\ instIdx = 0
  /\ installedFiles = <<>>
  /\ instLog = <<>>
  /\ instResult = InstallResult(<<>>, FALSE, <<>>, <<>>)

\* installFont and installFromGoogleFonts up to the end of searchFont
installFont ==
  /\ instPc = "ready"
  /\ \E got \in getAllFonts :
       /\ fontsCache' = got.cache
       /\ listingRequests' = got.requests
       /\ LET index == findFont(got.fonts, instFontName)
          IN  \/ /\ isMissing(index)
                 /\ instResult' = installFontResult(instFontName,
                                     InstallResult(instFontName, FALSE, <<>>, <<"n">>))
                 /\ instPc' = "returned"
                 /\ UNCHANGED instVariants
              \/ /\ ~isMissing(index)
                 /\ instVariants' = getCommonVariants(foundFont(got.fonts, index).variants)
                 /\ instPc' = "googleInstall"
                 /\ UNCHANGED instResult
  /\ UNCHANGED <<remoteCatalog, catLast>>
  /\ UNCHANGED <<instFontName, instFontFiles, instIdx, installedFiles, instLog>>
  /\ UNCHANGED notInstVars

\* GoogleFontsService.installFont up to the end of getFontFiles
googleInstallFont ==
  /\ instPc = "googleInstall"
  /\ \E got \in getAllFonts :
       /\ fontsCache' = got.cache
       /\ listingRequests' = got.requests
       /\ \/ /\ findFont(got.fonts, instFontName) = 0
             /\ instResult' = installFontResult(instFontName,
                                 InstallResult(instFontName, FALSE, <<>>, <<"n">>))
             /\ instPc' = "returned"
             /\ UNCHANGED <<instFontFiles, instLog>>
          \/ /\ findFont(got.fonts, instFontName) # 0
             /\ instLog' = Append(instLog, "getFontFiles")
             /\ \E response \in {[fetched |-> FALSE, cssContent |-> <<>>]}
                                  \cup {[fetched |-> TRUE, cssContent |-> css] :
                                          css \in InstallStylesheets(instFontName)} :
                  LET fontFiles == getFontFilesResult(response.fetched, response.cssContent)
                  IN  /\ instFontFiles' = fontFiles
                      /\ IF fontFiles = <<>>
                         THEN /\ instResult' = installFontResult(instFontName,
                                    InstallResult(instFontName, FALSE, <<>>, <<"f">>))
                              /\ instPc' = "returned"
                         ELSE /\ instPc' = "download"
                              /\ UNCHANGED instResult
  /\ UNCHANGED <<remoteCatalog, catLast>>
  /\ UNCHANGED <<instFontName, instVariants, instIdx, installedFiles>>
  /\ UNCHANGED notInstVars

\* GoogleFontsService.installFont: one iteration of the download loop
installDownloadNext ==
  /\ instPc = "download"
  /\ instIdx < Len(instFontFiles)
  /\ \E ok \in BOOLEAN :
       LET filePath == downloadFont(instFontFiles[instIdx + 1], S_user_fonts, ok)
       IN  /\ installedFiles' = IF filePath # NullPath THEN Append(installedFiles, filePath)
                                ELSE installedFiles
           /\ instLog' = instLog \o (IF ok THEN <<"download", "write">> ELSE <<"download">>)
  /\ instIdx' = instIdx + 1
  /\ UNCHANGED <<instFontName, instPc, instVariants, instFontFiles, instResult>>
  /\ UNCHANGED catVars
  /\ UNCHANGED notInstVars

\* GoogleFontsService.installFont after the loop, then both callers return
installReturn ==
  /\ instPc = "download"
  /\ instIdx = Len(instFontFiles)
  /\ instResult' = installFontResult(instFontName,
                      IF installedFiles = <<>>
                      THEN InstallResult(instFontName, FALSE, <<>>, <<"d">>)
                      ELSE InstallResult(instFontName, TRUE, installedFiles, <<>>))
  /\ instPc' = "returned"
  /\ UNCHANGED <<instFontName, instVariants, instFontFiles, instIdx, installedFiles, instLog>>
  /\ UNCHANGED catVars
  /\ UNCHANGED notInstVars

InitInstall ==
  InstInit /\ CatInit /\ DetIdle /\ StackIdle /\ FfIdle /\ BunIdle /\ BatchIdle /\ CvIdle
    /\ FwIdle /\ SlugIdle

NextInstall ==
  \/ installFont
  \/ googleInstallFont
  \/ installDownloadNext
  \/ installReturn

SpecInstall == InitInstall /\ [][NextInstall]_vars

\* C27: when the family is not in the remote catalog, installFont makes no
\* request of font files, no download and no write, and returns a result with
\* success = false and an error message.
C27_AbsentFamilyFailsCleanly ==
  findFont(remoteCatalog, instFontName) = 0 =>
    /\ instLog = <<>>
    /\ instPc \in {"ready", "returned"}
    /\ instPc = "returned" =>
         (~instResult.success /\ instResult.error # <<>>
            /\ instResult.fontName = instFontName)

\* installFont returned for a family that a catalog of two entries, fetched
\* and memoized, does not hold
C27_Witness ==
  /\ instPc = "returned"
  /\ Len(remoteCatalog) = 2
  /\ ~fontsCache.isNull
  /\ fontsCache.fonts = remoteCatalog
  /\ listingRequests = 1
  /\ findFont(remoteCatalog, instFontName) = 0
  /\ ~instResult.success

====
